---- MODULE Spec2Model ----
(***************************************************************************)
(* Model of the Raydium sniper bot (src/raydium_sniper_bot.py and its      *)
(* collaborators): the per-pool analysis tasks, the open-position set, the *)
(* valuation loop, exit_position, the shutdown clean-up of main(), the     *)
(* log listener (connection, backoff, signature de-duplication), the RPC   *)
(* pool and the price calculator.  Each part has its own specification     *)
(* over the one set of variables: Spec, SpecListener, SpecStream,          *)
(* SpecRace, SpecPool, SpecPrice, SpecExit.                                *)
(*                                                                         *)
(* The program is single-threaded asyncio code: a coroutine runs without   *)
(* interruption between two awaits that really suspend.  Every action of   *)
(* this model is the code of one coroutine from one such await to the      *)
(* next; the value the awaited network call returns is the input of the    *)
(* action that resumes the coroutine.                                      *)
(***************************************************************************)
EXTENDS Integers, FiniteSets, Sequences, Bags, TLC

(***************************************************************************)
(* Configuration (class Config).  The limits are read from the environment *)
(* (defaults 3 and 20); the model runs the bot configured with             *)
(* MAX_POSITIONS=1 and MAX_DAILY_TRADES=2 so that both limits are reached. *)
(***************************************************************************)
MAX_POSITIONS == 1
MAX_DAILY_TRADES == 2
STOP_LOSS_PERCENT == -20
TAKE_PROFIT_1 == 50
TAKE_PROFIT_2 == 100
TIMEOUT_MINUTES == 60
SMALL_LOSS_PERCENT == -5
RECONNECT_DELAY == 5            \* reconnect_delay of listen_new_pools, seconds
max_reconnect_delay == 300

(***************************************************************************)
(* Bounds of the model.                                                    *)
(***************************************************************************)
MaxTasks == 2          \* analyze_and_trade_pool tasks alive at one time
MaxScreenings == 3     \* screening runs over one behaviour: those counted in
                       \* rug_checks_passed/failed plus the tasks alive
MaxSig == 3            \* distinct transaction signatures on the stream
MaxFrames == 4         \* pool-creation frames the stream delivers
MaxFails == 8          \* consecutive failures of the listener's connection
MaxAfterStop == 2      \* frames the stream delivers after state.running is cleared
MaxUrls == 2           \* endpoint variables set where all pool operations interleave
MaxLoss == 30          \* P&L percentages evaluated: -MaxLoss..MaxGain
MaxGain == 110

Tokens == {"A", "B"}
Prices == {9, 10, 20}           \* USD prices get_token_price_usd can return; every
                                \* exit rule but TAKE_PROFIT_1 fires among them,
                                \* SpecExit covers the whole range of P&L
NoPrice == 0                    \* get_token_price_usd returned None
HoldTimes == {30, 90}           \* minutes read off the clock
HoldSamples == {0, 30, 60, 61, 90}  \* hold times SpecExit evaluates
TxIds == {"sig1"}               \* trade ids execute_buy can return
NoTx == "None"
ChecksPassed == {3, 4}          \* RugCheckResult.checks_passed of the verdicts returned
Sigs == 1..MaxSig

NoPos == [id |-> 0]
NoItem == [token |-> "-", id |-> 0, entry_price_usd |-> 0]

VARIABLES
    DRY_RUN,          \* config.DRY_RUN, fixed at start-up
    running,          \* state.running
    positions,        \* state.positions: token_mint -> Position, NoPos if absent
    stats,            \* state.stats (trading counters)
    tasks,            \* analyze_and_trade_pool coroutines: pc and locals
    mon,              \* monitor_positions coroutine: pc, snapshot, current item
    main,             \* main(): pc, clean-up snapshot, current item
    accounted,        \* history: times exit_position booked each Position object
    sell_calls,       \* history: JupiterTrader.execute_sell invocations
    processed_pools,  \* state.processed_pools
    pools_detected,   \* state.stats['pools_detected']
    pools_analyzed,   \* state.stats['pools_analyzed']
    pending,          \* analyze_new_pool tasks created and not yet run, per signature
    frames,           \* history: pool-creation frames delivered, per signature
    analyses,         \* history: analyze_new_pool runs that got past the check, per signature
    eval,             \* one evaluation of the exit rules: inputs and result
    ws_connected,     \* state.ws_connected
    lst,              \* listen_new_pools coroutine: pc, reconnect_delay, history
    pool,             \* the RPCPool object: rpc_urls, current_index, health_status
    race,             \* RPCPool.parallel_call: pc, the call_rpc tasks, result
    hc,               \* RPCPool.health_check coroutine: pc and loop index
    pq,               \* one PriceCalculator query: pc, locals, result
    sp,               \* get_sol_price_usd: pc, the cache and its timestamp
    now,              \* time.time(), seconds
    rug,              \* one RugChecker.check_token_safety run
    tr                \* one JupiterTrader.execute_buy / execute_sell call

traderVars == <<DRY_RUN, running, positions, stats, tasks, mon, main, accounted, sell_calls>>
listenerVars == <<processed_pools, pools_detected, pools_analyzed, pending, frames, analyses>>
extVars == <<ws_connected, lst, pool, race, hc, pq, sp, now, rug, tr>>
vars == <<DRY_RUN, running, positions, stats, tasks, mon, main, accounted, sell_calls,
          processed_pools, pools_detected, pools_analyzed, pending, frames, analyses, eval,
          ws_connected, lst, pool, race, hc, pq, sp, now, rug, tr>>

----------------------------------------------------------------------------
(* Pure helpers                                                             *)

RECURSIVE GCD(_, _)
GCD(a, b) == IF b = 0 THEN a ELSE GCD(b, a % b)

RECURSIVE LCMSet(_)
LCMSet(S) == IF S = {} THEN 1
             ELSE LET x == CHOOSE y \in S : TRUE
                      r == LCMSet(S \ {x})
                  IN (x * r) \div GCD(x, r)

\* P&L percentages are kept exactly, in units of 1/PnlScale percent.
PnlScale == LCMSet(Prices)

\* Position.current_pnl, in units of 1/PnlScale percent
current_pnl(entry_price_usd, current_price) ==
    IF entry_price_usd <= 0 THEN 0
    ELSE ((current_price - entry_price_usd) * 100 * PnlScale) \div entry_price_usd

\* the exit rules with the timeout rule tried before the others
ExitReasonTimeoutFirst(pnl, hold_time) ==
    IF hold_time > TIMEOUT_MINUTES /\ pnl < SMALL_LOSS_PERCENT * PnlScale THEN "TIMEOUT_LOSS"
    ELSE IF pnl <= STOP_LOSS_PERCENT * PnlScale THEN "STOP_LOSS"
    ELSE IF pnl >= TAKE_PROFIT_2 * PnlScale THEN "TAKE_PROFIT_2"
    ELSE IF pnl >= TAKE_PROFIT_1 * PnlScale THEN "TAKE_PROFIT_1"
    ELSE "None"

\* the exit rules of monitor_positions; pnl in units of 1/PnlScale percent
ExitReason(pnl, hold_time) ==
    IF pnl <= STOP_LOSS_PERCENT * PnlScale THEN "STOP_LOSS"
    ELSE IF pnl >= TAKE_PROFIT_2 * PnlScale THEN "TAKE_PROFIT_2"
    ELSE IF pnl >= TAKE_PROFIT_1 * PnlScale THEN "TAKE_PROFIT_1"
    ELSE IF hold_time > TIMEOUT_MINUTES /\ pnl < SMALL_LOSS_PERCENT * PnlScale THEN "TIMEOUT_LOSS"
    ELSE "None"

\* a verdict that accepts a 3-of-5 majority
IsSafeMajority(checks_passed) == checks_passed >= 3

\* RugChecker.check_token_safety: the verdict for a number of passed checks
IsSafe(checks_passed) == checks_passed >= 4

OpenTokens(pos) == {k \in Tokens : pos[k] # NoPos}
NumOpen(pos) == Cardinality(OpenTokens(pos))

\* the limits compared with > where the code has >=
LimitReachedStrict(pos, st) ==
    \/ NumOpen(pos) > MAX_POSITIONS
    \/ st.today_trades > MAX_DAILY_TRADES

\* the admission test at the head of analyze_and_trade_pool
LimitReached(pos, st) ==
    \/ NumOpen(pos) >= MAX_POSITIONS
    \/ st.today_trades >= MAX_DAILY_TRADES

\* list(state.positions.items()): the (key, Position object) pairs
Snapshot(pos) ==
    {[token |-> k, id |-> pos[k].id, entry_price_usd |-> pos[k].entry_price_usd] :
        k \in OpenTokens(pos)}

MaxIds == MaxScreenings + 1

----------------------------------------------------------------------------
(* State of the listener, the RPC pool and the price calculator before any  *)
(* of their code has run                                                    *)

\* listen_new_pools before its task has run: reconnect_delay is assigned by
\* ListenerStart.  fails, wait, subs, prior and after_stop are history
NoListener ==
    [pc |-> "start", reconnect_delay |-> 0, open |-> FALSE,
     fails |-> 0, wait |-> 0, subs |-> FALSE, prior |-> 0, after_stop |-> 0,
     dropped |-> FALSE]

\* no RPCPool object yet
NoPool ==
    [constructed |-> "no", env |-> {}, rpc_urls |-> <<>>, current_index |-> 0,
     health_status |-> <<>>, client |-> "-"]

NoRace == [pc |-> "idle", call |-> <<>>, first_ok |-> 0, result |-> 0]

NoHealthCheck == [pc |-> "idle", i |-> 0]

\* a price or liquidity result: no value (None), or the fraction num / den
NoValue == [some |-> FALSE, num |-> 0, den |-> 1]

\* _get_token_account_balance returned None
NoInfo == [some |-> FALSE, amount |-> 0, decimals |-> 0]

NoQuery ==
    [pc |-> "idle", op |-> "-", data_len |-> 0, parsed |-> FALSE, sol_side |-> "-",
     base_info |-> NoInfo, quote_info |-> NoInfo,
     price_in_sol |-> NoValue, result |-> NoValue]

\* get_sol_price_usd not running, nothing cached; ret is the value of the
\* latest return, fetched tells whether that call went to the quote API,
\* outcome is that of its fetch ("-" when the call did not fetch)
NoSolPrice ==
    [pc |-> "idle", sol_price_cache |-> 0, sol_price_timestamp |-> 0,
     caller |-> "-", outcome |-> "-", ret |-> 0, fetched |-> FALSE]

CheckNames ==
    {"mint_authority", "freeze_authority", "holder_distribution", "liquidity",
     "creator_history"}


\* no screening run; check is the result dict of each check ("pending"
\* until its coroutine has returned), err tells that the check's own
\* except branch produced it
NoRug ==
    [pc |-> "idle", creator |-> FALSE, liquidity_sol |-> 0,
     check |-> [c \in CheckNames |-> "pending"],
     err |-> [c \in CheckNames |-> FALSE],
     holder_pc |-> "largest",
     checks_passed |-> 0, checks_failed |-> 0, risk_level |-> "-", is_safe |-> FALSE]

\* no task awaits the trade call
NoCaller == [pc |-> "-"]

\* no trade call; signed, simulated, submitted and failed are the history of
\* the current call, raised tells that an exception left it, caller is the
\* analyze_and_trade_pool task awaiting it
NoTrade ==
    [pc |-> "idle", side |-> "-", dry_run |-> TRUE, caller |-> NoCaller,
     signed |-> FALSE, client |-> "none", simulated |-> FALSE, submitted |-> FALSE,
     sim_err |-> FALSE, tx_sig |-> NoTx, failed |-> "-", raised |-> FALSE,
     result |-> NoTx]

ExtInit ==
    /\ ws_connected = FALSE
    /\ lst = NoListener
    /\ pool = NoPool
    /\ race = NoRace
    /\ hc = NoHealthCheck
    /\ pq = NoQuery
    /\ sp = NoSolPrice
    /\ now = 0
    /\ rug = NoRug
    /\ tr = NoTrade

----------------------------------------------------------------------------
Init ==
    /\ DRY_RUN \in BOOLEAN
    /\ running = TRUE
    /\ positions = [k \in Tokens |-> NoPos]
    /\ stats = [rug_checks_passed |-> 0, rug_checks_failed |-> 0,
                trades_executed |-> 0, trades_simulated |-> 0,
                wins |-> 0, losses |-> 0, today_trades |-> 0]
    /\ tasks = EmptyBag
    /\ mon = [pc |-> "init", queue |-> {}, cur |-> NoItem]
    /\ main = [pc |-> "run", queue |-> {}, cur |-> NoItem]
    /\ accounted = [i \in 1..MaxIds |-> 0]
    /\ sell_calls = 0
    /\ processed_pools = {}
    /\ pools_detected = 0
    /\ pools_analyzed = 0
    /\ pending = [s \in Sigs |-> 0]
    /\ frames = [s \in Sigs |-> 0]
    /\ analyses = [s \in Sigs |-> 0]
    /\ eval = [pnl |-> 0, hold_time |-> 0, reason |-> "unset"]
    /\ ExtInit

----------------------------------------------------------------------------
(* analyze_and_trade_pool(pool_event)                                       *)
(* tasks is the multiset of the live coroutines of this function, each a   *)
(* record of its position in the code and of its locals.                   *)

Task(pc, k, checks_passed, price_usd) ==
    [pc |-> pc, token |-> k, checks_passed |-> checks_passed, price_usd |-> price_usd]

Live == BagToSet(tasks)
One(r) == SetToBag({r})

\* asyncio.create_task(analyze_and_trade_pool(pool_event)): the task exists
\* but has not run yet.  Only a live bot creates tasks.
Spawn(k) ==
    /\ main.pc = "run"
    /\ BagCardinality(tasks) < MaxTasks
    /\ stats.rug_checks_passed + stats.rug_checks_failed + BagCardinality(tasks) < MaxScreenings
    /\ tasks' = tasks (+) One(Task("start", k, 0, 0))
    /\ UNCHANGED <<DRY_RUN, running, positions, stats, mon, main, accounted, sell_calls>>
    /\ UNCHANGED <<listenerVars, eval, extVars>>

\* first step of the task: the limit checks, then await check_token_safety
Admit(r) ==
    /\ r.pc = "start"
    /\ tasks' = IF LimitReached(positions, stats)
                THEN tasks (-) One(r)
                ELSE (tasks (-) One(r)) (+) One([r EXCEPT !.pc = "screening"])
    /\ UNCHANGED <<DRY_RUN, running, positions, stats, mon, main, accounted, sell_calls>>
    /\ UNCHANGED <<listenerVars, eval, extVars>>

\* check_token_safety returned a verdict with checks_passed = passed;
\* unsafe: count, notify, return; safe: count, then await get_token_price_usd
ScreenReturn(r, passed) ==
    /\ r.pc = "screening"
    /\ IF ~IsSafe(passed)
       THEN /\ stats' = [stats EXCEPT !.rug_checks_failed = @ + 1]
            /\ tasks' = tasks (-) One(r)
       ELSE /\ stats' = [stats EXCEPT !.rug_checks_passed = @ + 1]
            /\ tasks' = (tasks (-) One(r))
                            (+) One([r EXCEPT !.pc = "pricing", !.checks_passed = passed])
    /\ UNCHANGED <<DRY_RUN, running, positions, mon, main, accounted, sell_calls>>
    /\ UNCHANGED <<listenerVars, eval, extVars>>

\* the step without the test of the price (lines 476-478 missing)
PriceReturnUnchecked(r, p) ==
    /\ r.pc = "pricing"
    /\ tasks' = (tasks (-) One(r)) (+) One([r EXCEPT !.pc = "buying", !.price_usd = p])
    /\ UNCHANGED <<DRY_RUN, running, positions, stats, mon, main, accounted, sell_calls>>
    /\ UNCHANGED <<listenerVars, eval, extVars>>

\* get_token_price_usd returned p; no price: return; else await execute_buy
PriceReturn(r, p) ==
    /\ r.pc = "pricing"
    /\ tasks' = IF p = NoPrice \/ p <= 0
                THEN tasks (-) One(r)
                ELSE (tasks (-) One(r)) (+) One([r EXCEPT !.pc = "buying", !.price_usd = p])
    /\ UNCHANGED <<DRY_RUN, running, positions, stats, mon, main, accounted, sell_calls>>
    /\ UNCHANGED <<listenerVars, eval, extVars>>

\* the Position built at lines 505-515; id is the identity of the object
NewPosition(id, price_usd, tx_sig, checks_passed) ==
    [id |-> id, entry_price_usd |-> price_usd,
     highest_price |-> price_usd, lowest_price |-> price_usd,
     entry_tx |-> tx_sig, rug_check_passed |-> checks_passed]

\* state.positions[pool_event.token_mint] = position
Register(pos, k, position) == [pos EXCEPT ![k] = position]

\* the counters updated after a successful buy
CountTrade(st, dry) ==
    [st EXCEPT !.trades_simulated = IF dry THEN @ + 1 ELSE @,
               !.trades_executed = IF dry THEN @ ELSE @ + 1,
               !.today_trades = @ + 1]

\* the step without the test of the returned id (lines 492-494 missing)
BuyReturnUnchecked(r, tx_sig) ==
    /\ r.pc = "buying"
    /\ tasks' = tasks (-) One(r)
    /\ stats' = CountTrade(stats, DRY_RUN)
    /\ positions' = Register(positions, r.token,
                        NewPosition(stats'.today_trades, r.price_usd,
                                    tx_sig, r.checks_passed))
    /\ UNCHANGED <<DRY_RUN, running, mon, main, accounted, sell_calls>>
    /\ UNCHANGED <<listenerVars, eval, extVars>>

\* execute_buy returned tx_sig; null: return; else count the trade and
\* register the position (the final notification changes no state)
BuyReturnBody(r, tx_sig) ==
    /\ r.pc = "buying"
    /\ tasks' = tasks (-) One(r)
    /\ IF tx_sig = NoTx
       THEN UNCHANGED <<stats, positions>>
       ELSE /\ stats' = CountTrade(stats, DRY_RUN)
            /\ positions' = Register(positions, r.token,
                                NewPosition(stats'.today_trades, r.price_usd,
                                            tx_sig, r.checks_passed))

BuyReturn(r, tx_sig) ==
    /\ BuyReturnBody(r, tx_sig)
    /\ UNCHANGED <<DRY_RUN, running, mon, main, accounted, sell_calls>>
    /\ UNCHANGED <<listenerVars, eval, extVars>>

----------------------------------------------------------------------------
(* exit_position(token_mint, position, current_price, exit_reason)          *)

\* lines 645-678: classify the result and book it, up to await save_trade.
\* stats['total_pnl'], a float sum written on the line after wins/losses
\* and read only by the notifications, is not kept in the model's state.
BookExit(st, item, current_price) ==
    LET pnl == current_pnl(item.entry_price_usd, current_price)
    IN [st EXCEPT !.wins = IF pnl > 0 THEN @ + 1 ELSE @,
                  !.losses = IF pnl > 0 THEN @ ELSE @ + 1]

\* the sell of lines 663-670: a synthesized id in both modes; the
\* number of execute_sell invocations it adds
SellInvocations(dry) == 0

NoteBooked(acc, item) == [acc EXCEPT ![item.id] = IF @ < 2 THEN @ + 1 ELSE @]

\* line 684, del state.positions[token_mint]: removes whatever the key
\* holds; a missing key raises KeyError, which exit_position swallows
DeleteKey(pos, k) == [pos EXCEPT ![k] = NoPos]

\* the widening with the lowest price replaced on every observation
WidenResetLow(pos, item, current_price) ==
    IF pos[item.token] # NoPos /\ pos[item.token].id = item.id
    THEN [pos EXCEPT ![item.token] =
            [@ EXCEPT !.highest_price = IF current_price > @ THEN current_price ELSE @,
                      !.lowest_price = current_price]]
    ELSE pos

\* the in-place widening of lines 575-579, seen through state.positions
\* when the object of the snapshot is still the one stored under its key
Widen(pos, item, current_price) ==
    IF pos[item.token] # NoPos /\ pos[item.token].id = item.id
    THEN [pos EXCEPT ![item.token] =
            [@ EXCEPT !.highest_price = IF current_price > @ THEN current_price ELSE @,
                      !.lowest_price = IF current_price < @ THEN current_price ELSE @]]
    ELSE pos

----------------------------------------------------------------------------
(* monitor_positions()                                                      *)

\* continue with the next snapshot item (await its price) or, at the end of
\* the for loop, await asyncio.sleep
\* a loop that starts the next pass as soon as the list is exhausted
NextItemNoSleep(co, queue) ==
    IF queue = {} /\ Snapshot(positions) = {}
    THEN co' = [pc |-> "sleep", queue |-> {}, cur |-> NoItem]
    ELSE \E item \in (IF queue = {} THEN Snapshot(positions) ELSE queue) :
            co' = [pc |-> "fetch",
                   queue |-> (IF queue = {} THEN Snapshot(positions) ELSE queue) \ {item},
                   cur |-> item]

NextItem(co, queue) ==
    IF queue = {}
    THEN co' = [pc |-> "sleep", queue |-> {}, cur |-> NoItem]
    ELSE \E item \in queue : co' = [pc |-> "fetch", queue |-> queue \ {item}, cur |-> item]

\* top of the while loop, entered at start-up and after each sleep
MonLoop ==
    /\ mon.pc \in {"init", "sleep"}
    /\ IF ~running
       THEN mon' = [pc |-> "done", queue |-> {}, cur |-> NoItem]
       ELSE NextItem(mon, Snapshot(positions))
    /\ UNCHANGED <<DRY_RUN, running, positions, stats, tasks, main, accounted, sell_calls>>
    /\ UNCHANGED <<listenerVars, eval, extVars>>

\* a loop in which a missing price ends the pass
MonPriceAbortsTick(current_price, hold_time) ==
    /\ mon.pc = "fetch"
    /\ IF current_price = NoPrice
       THEN /\ mon' = [pc |-> "sleep", queue |-> {}, cur |-> NoItem]
            /\ UNCHANGED <<positions, stats, accounted, sell_calls>>
       ELSE LET pnl == current_pnl(mon.cur.entry_price_usd, current_price)
            IN /\ positions' = Widen(positions, mon.cur, current_price)
               /\ IF ExitReason(pnl, hold_time) # "None"
                  THEN /\ stats' = BookExit(stats, mon.cur, current_price)
                       /\ accounted' = NoteBooked(accounted, mon.cur)
                       /\ sell_calls' = sell_calls + SellInvocations(DRY_RUN)
                       /\ mon' = [mon EXCEPT !.pc = "exit_save"]
                  ELSE /\ NextItem(mon, mon.queue)
                       /\ UNCHANGED <<stats, accounted, sell_calls>>
    /\ UNCHANGED <<DRY_RUN, running, tasks, main>>
    /\ UNCHANGED <<listenerVars, eval, extVars>>

\* get_token_price_usd returned current_price for the current item
MonPrice(current_price, hold_time) ==
    /\ mon.pc = "fetch"
    /\ IF current_price = NoPrice
       THEN /\ NextItem(mon, mon.queue)
            /\ UNCHANGED <<positions, stats, accounted, sell_calls>>
       ELSE LET pnl == current_pnl(mon.cur.entry_price_usd, current_price)
            IN /\ positions' = Widen(positions, mon.cur, current_price)
               /\ IF ExitReason(pnl, hold_time) # "None"
                  THEN /\ stats' = BookExit(stats, mon.cur, current_price)
                       /\ accounted' = NoteBooked(accounted, mon.cur)
                       /\ sell_calls' = sell_calls + SellInvocations(DRY_RUN)
                       /\ mon' = [mon EXCEPT !.pc = "exit_save"]
                  ELSE /\ NextItem(mon, mon.queue)
                       /\ UNCHANGED <<stats, accounted, sell_calls>>
    /\ UNCHANGED <<DRY_RUN, running, tasks, main>>
    /\ UNCHANGED <<listenerVars, eval, extVars>>

\* save_trade returned: delete the key, notify, next item
MonExitDone ==
    /\ mon.pc = "exit_save"
    /\ positions' = DeleteKey(positions, mon.cur.token)
    /\ NextItem(mon, mon.queue)
    /\ UNCHANGED <<DRY_RUN, running, stats, tasks, main, accounted, sell_calls>>
    /\ UNCHANGED <<listenerVars, eval, extVars>>

----------------------------------------------------------------------------
(* main(): interruption and the clean-up of the finally block              *)

\* The await of asyncio.gather is interrupted.  A cancellation (or a
\* KeyboardInterrupt raised inside a child) ends the valuation task where it
\* stands; only an interrupt caught in main before the valuation task first
\* ran leaves that task alive, with state.running cleared (line 813).
Interrupt(flag) ==
    /\ main.pc = "run"
    /\ running' = flag
    /\ main' = [main EXCEPT !.pc = "cleanup"]
    /\ mon' = IF mon.pc = "init" /\ ~flag THEN mon
              ELSE [pc |-> "dead", queue |-> {}, cur |-> NoItem]
    /\ UNCHANGED <<DRY_RUN, positions, stats, tasks, accounted, sell_calls>>
    /\ UNCHANGED <<listenerVars, eval, extVars>>

\* next position of the clean-up, or db_pool.close() after the last one
NextCleanup(queue) ==
    IF queue = {}
    THEN main' = [pc |-> "done", queue |-> {}, cur |-> NoItem]
    ELSE \E item \in queue : main' = [pc |-> "c_fetch", queue |-> queue \ {item}, cur |-> item]

\* lines 822-824
CleanupStart ==
    /\ main.pc = "cleanup"
    /\ NextCleanup(Snapshot(positions))
    /\ UNCHANGED <<DRY_RUN, running, positions, stats, tasks, mon, accounted, sell_calls>>
    /\ UNCHANGED <<listenerVars, eval, extVars>>

\* lines 826-831: the price came back; exit_position only if there is one
CleanupPrice(price) ==
    /\ main.pc = "c_fetch"
    /\ IF price = NoPrice
       THEN /\ NextCleanup(main.queue)
            /\ UNCHANGED <<stats, accounted, sell_calls>>
       ELSE /\ stats' = BookExit(stats, main.cur, price)
            /\ accounted' = NoteBooked(accounted, main.cur)
            /\ sell_calls' = sell_calls + SellInvocations(DRY_RUN)
            /\ main' = [main EXCEPT !.pc = "c_save"]
    /\ UNCHANGED <<DRY_RUN, running, positions, tasks, mon>>
    /\ UNCHANGED <<listenerVars, eval, extVars>>

CleanupExitDone ==
    /\ main.pc = "c_save"
    /\ positions' = DeleteKey(positions, main.cur.token)
    /\ NextCleanup(main.queue)
    /\ UNCHANGED <<DRY_RUN, running, stats, tasks, mon, accounted, sell_calls>>
    /\ UNCHANGED <<listenerVars, eval, extVars>>

----------------------------------------------------------------------------
Next ==
    \/ \E k \in Tokens : Spawn(k)
    \/ \E r \in Live : Admit(r)
    \/ \E r \in Live, passed \in ChecksPassed : ScreenReturn(r, passed)
    \/ \E r \in Live, p \in Prices \cup {NoPrice} : PriceReturn(r, p)
    \/ \E r \in Live, tx \in TxIds \cup {NoTx} : BuyReturn(r, tx)
    \/ MonLoop
    \/ \E p \in Prices \cup {NoPrice}, h \in HoldTimes : MonPrice(p, h)
    \/ MonExitDone
    \/ \E flag \in BOOLEAN : Interrupt(flag)
    \/ CleanupStart
    \/ \E p \in Prices \cup {NoPrice} : CleanupPrice(p)
    \/ CleanupExitDone

Spec == Init /\ [][Next]_vars

TypeOK ==
    /\ running \in BOOLEAN
    /\ \A k \in Tokens : positions[k] = NoPos \/ positions[k].id \in 1..MaxIds

----------------------------------------------------------------------------
(* The log listener: process_log_event and analyze_new_pool                 *)

\* a handler that awaits the analysis instead of creating a task for it
ProcessLogEventBodyAwaits(sig, is_new_pool) ==
    /\ pools_detected < MaxFrames
    /\ IF is_new_pool
       THEN /\ pools_detected' = pools_detected + 1
            /\ frames' = [frames EXCEPT ![sig] = @ + 1]
            /\ IF sig \in processed_pools
               THEN UNCHANGED <<processed_pools, pools_analyzed, analyses>>
               ELSE /\ processed_pools' = processed_pools \cup {sig}
                    /\ pools_analyzed' = pools_analyzed + 1
                    /\ analyses' = [analyses EXCEPT ![sig] = @ + 1]
       ELSE UNCHANGED <<pools_detected, frames, processed_pools, pools_analyzed, analyses>>
    /\ UNCHANGED pending

\* process_log_event: a frame whose logs carry the initialize2 marker is
\* counted and an analysis task is created for its signature; any other
\* frame is ignored
ProcessLogEventBody(sig, is_new_pool) ==
    /\ pools_detected < MaxFrames
    /\ IF is_new_pool
       THEN /\ pools_detected' = pools_detected + 1
            /\ pending' = [pending EXCEPT ![sig] = @ + 1]
            /\ frames' = [frames EXCEPT ![sig] = @ + 1]
       ELSE UNCHANGED <<pools_detected, pending, frames>>
    /\ UNCHANGED <<processed_pools, pools_analyzed, analyses>>

\* process_log_event called on its own
ProcessLogEvent(sig, is_new_pool) ==
    /\ ProcessLogEventBody(sig, is_new_pool)
    /\ UNCHANGED <<eval, extVars>>
    /\ UNCHANGED traderVars

\* no membership test
SeenNever(processed, sig) == FALSE

\* the membership test of line 384
Seen(processed, sig) == sig \in processed

\* an analysis that counts a signature it has already recorded
AnalyzeNewPoolCountsAgain(sig) ==
    /\ pending[sig] > 0
    /\ pending' = [pending EXCEPT ![sig] = @ - 1]
    /\ processed_pools' = processed_pools \cup {sig}
    /\ pools_analyzed' = pools_analyzed + 1
    /\ analyses' = [analyses EXCEPT ![sig] = @ + 1]
    /\ UNCHANGED <<pools_detected, frames, eval, extVars>>
    /\ UNCHANGED traderVars

\* analyze_new_pool(tx_signature) runs: it has no await, so it is one step
AnalyzeNewPool(sig) ==
    /\ pending[sig] > 0
    /\ pending' = [pending EXCEPT ![sig] = @ - 1]
    /\ IF Seen(processed_pools, sig)
       THEN UNCHANGED <<processed_pools, pools_analyzed, analyses>>
       ELSE /\ processed_pools' = processed_pools \cup {sig}
            /\ pools_analyzed' = pools_analyzed + 1
            /\ analyses' = [analyses EXCEPT ![sig] = @ + 1]
    /\ UNCHANGED <<pools_detected, frames, eval, extVars>>
    /\ UNCHANGED traderVars

NextListener ==
    \/ \E sig \in Sigs, is_new_pool \in BOOLEAN : ProcessLogEvent(sig, is_new_pool)
    \/ \E sig \in Sigs : AnalyzeNewPool(sig)

SpecListener == Init /\ [][NextListener]_vars

----------------------------------------------------------------------------
(* listen_new_pools: the connect / subscribe / read loop and its backoff    *)
(* lst.pc is the await the coroutine is suspended at:                       *)
(*   "start"        the task is created and has not run                     *)
(*   "connecting"   websockets.connect (line 297)                           *)
(*   "subscribing"  websocket.send of the logsSubscribe request (line 316)  *)
(*   "reading"      the next message of the stream (line 323)               *)
(*   "sleep_ws"     asyncio.sleep of the WebSocketException branch (341)    *)
(*   "sleep_exc"    asyncio.sleep of the Exception branch (347)             *)
(*   "done"         the function has returned                               *)
(* History fields of lst: fails counts the failures since the last          *)
(* successful subscription, wait is the delay of the latest sleep, subs     *)
(* tells that a subscription has succeeded, prior is reconnect_delay as it  *)
(* was when the latest subscription succeeded, after_stop counts the frames *)
(* read with state.running cleared.                                         *)

Min(a, b) == IF a <= b THEN a ELSE b

ConnectOutcomes == {"ok", "ws_error", "error"}     \* error: OSError, TimeoutError, ...
StreamOutcomes == {"closed_ok", "ws_error", "error"}
FrameKinds == {"bad_json", "raises", "no_params", "event"}
Sleeping == {"sleep_ws", "sleep_exc"}

\* the test of `while state.running` (line 293): where the coroutine goes next
WhileRunning == IF running THEN "connecting" ELSE "done"

\* the head of listen_new_pools up to the first await
ListenerStart ==
    /\ lst.pc = "start"
    /\ lst' = [lst EXCEPT !.pc = WhileRunning, !.reconnect_delay = RECONNECT_DELAY]
    /\ UNCHANGED <<ws_connected, pool, race, hc, pq, eval, sp, now, rug, tr>>
    /\ UNCHANGED traderVars
    /\ UNCHANGED listenerVars

\* the except branches up to their sleep (lines 337-341 and 344-347); the
\* connection, if one was open, is released by the async with
Fail(kind) ==
    /\ lst.fails < MaxFails
    /\ ws_connected' = FALSE
    /\ lst' = [lst EXCEPT !.pc = IF kind = "ws_error" THEN "sleep_ws" ELSE "sleep_exc",
                          !.open = FALSE,
                          !.dropped = FALSE,
                          !.fails = @ + 1,
                          !.wait = lst.reconnect_delay]

\* websockets.connect returns or raises
ConnectReturn(outcome) ==
    /\ lst.pc = "connecting"
    /\ IF outcome = "ok"
       THEN /\ ws_connected' = TRUE
            /\ lst' = [lst EXCEPT !.pc = "subscribing", !.open = TRUE]
       ELSE Fail(outcome)
    /\ UNCHANGED <<pool, race, hc, pq, eval, sp, now, rug, tr>>
    /\ UNCHANGED traderVars
    /\ UNCHANGED listenerVars

\* the delay left as it is after a subscription
ResetDelayKeep(reconnect_delay) == reconnect_delay

\* line 320
ResetDelay(reconnect_delay) == RECONNECT_DELAY

\* websocket.send of the subscription returns or raises
SendReturn(outcome) ==
    /\ lst.pc = "subscribing"
    /\ IF outcome = "ok"
       THEN /\ lst' = [lst EXCEPT !.pc = "reading",
                                  !.reconnect_delay = ResetDelay(@),
                                  !.prior = lst.reconnect_delay,
                                  !.fails = 0,
                                  !.subs = TRUE,
                                  !.dropped = FALSE]
            /\ UNCHANGED ws_connected
       ELSE Fail(outcome)
    /\ UNCHANGED <<pool, race, hc, pq, eval, sp, now, rug, tr>>
    /\ UNCHANGED traderVars
    /\ UNCHANGED listenerVars

\* a read loop that a malformed frame takes to the except of line 343
ReadFrameReconnects(kind, sig, is_new_pool) ==
    /\ lst.pc = "reading"
    /\ running \/ lst.after_stop < MaxAfterStop
    /\ IF kind = "event"
       THEN ProcessLogEventBody(sig, is_new_pool)
       ELSE UNCHANGED listenerVars
    /\ IF kind \in {"bad_json", "raises"}
       THEN Fail("error")
       ELSE /\ lst' = [lst EXCEPT !.after_stop = IF running THEN @ ELSE @ + 1]
            /\ UNCHANGED ws_connected
    /\ UNCHANGED <<pool, race, hc, pq, eval, sp, now, rug, tr>>
    /\ UNCHANGED traderVars

\* one message of the stream (lines 323-335): invalid JSON is skipped
\* (331-332), a frame whose handling raises is logged (333-335), a frame
\* without params.result is ignored, any other goes to process_log_event,
\* which runs without suspending; dropped notes that the open connection
\* has had a malformed frame
ReadFrame(kind, sig, is_new_pool) ==
    /\ lst.pc = "reading"
    /\ running \/ lst.after_stop < MaxAfterStop
    /\ IF kind = "event"
       THEN ProcessLogEventBody(sig, is_new_pool)
       ELSE UNCHANGED listenerVars
    /\ lst' = [lst EXCEPT !.after_stop = IF running THEN @ ELSE @ + 1,
                          !.dropped = @ \/ kind \in {"bad_json", "raises"}]
    /\ UNCHANGED <<ws_connected, pool, race, hc, pq, eval, sp, now, rug, tr>>
    /\ UNCHANGED traderVars

\* the stream ends: normally (the server closed with 1000 or 1001, the
\* async for is exhausted and the loop goes round without sleeping), or by
\* an exception out of the iterator
StreamEnd(outcome) ==
    /\ lst.pc = "reading"
    /\ IF outcome = "closed_ok"
       THEN /\ lst' = [lst EXCEPT !.pc = WhileRunning, !.open = FALSE,
                                  !.dropped = FALSE]
            /\ UNCHANGED ws_connected
       ELSE Fail(outcome)
    /\ UNCHANGED <<pool, race, hc, pq, eval, sp, now, rug, tr>>
    /\ UNCHANGED traderVars
    /\ UNCHANGED listenerVars

\* the delay after a sleep: doubled in the WebSocketException branch only
NextDelay(pc, reconnect_delay) ==
    IF pc = "sleep_ws" THEN Min(reconnect_delay * 2, max_reconnect_delay)
    ELSE reconnect_delay

\* asyncio.sleep(reconnect_delay) returns, the loop goes round
SleepDone ==
    /\ lst.pc \in Sleeping
    /\ lst' = [lst EXCEPT !.pc = WhileRunning,
                          !.reconnect_delay = NextDelay(lst.pc, @)]
    /\ UNCHANGED <<ws_connected, pool, race, hc, pq, eval, sp, now, rug, tr>>
    /\ UNCHANGED traderVars
    /\ UNCHANGED listenerVars

\* state.running is cleared (the assignment of line 813) while the
\* listener task is alive
Stop ==
    /\ running
    /\ lst.pc # "start"
    /\ running' = FALSE
    /\ UNCHANGED <<DRY_RUN, positions, stats, tasks, mon, main, accounted, sell_calls>>
    /\ UNCHANGED <<extVars, eval>>
    /\ UNCHANGED listenerVars

NextStream ==
    \/ ListenerStart
    \/ \E outcome \in ConnectOutcomes : ConnectReturn(outcome)
    \/ \E outcome \in ConnectOutcomes : SendReturn(outcome)
    \/ \E kind \in FrameKinds, sig \in Sigs, is_new_pool \in BOOLEAN :
            ReadFrame(kind, sig, is_new_pool)
    \/ \E outcome \in StreamOutcomes : StreamEnd(outcome)
    \/ SleepDone
    \/ Stop
    \/ \E sig \in Sigs : AnalyzeNewPool(sig)

\* the listener runs in either mode alike: the bot is started with the
\* default DRY_RUN=true
InitStream == Init /\ DRY_RUN

SpecStream == InitStream /\ [][NextStream]_vars

----------------------------------------------------------------------------
(* RPCPool (src/rpc_pool.py)                                                *)
(* An endpoint URL is named after the environment variable that holds it;   *)
(* env is the set of the variables that are set.                            *)

Range(f) == {f[i] : i \in DOMAIN f}

rpc_keys == <<"HELIUS", "QUICKNODE", "TRITON", "ALCHEMY">>
PUBLIC_RPC == "PUBLIC"          \* https://api.mainnet-beta.solana.com
Envs == SUBSET Range(rpc_keys)

\* RPCPool._load_rpc_urls: the URLs that are set, in the order of rpc_keys,
\* and the public endpoint when none is
load_rpc_urls(env) ==
    LET IsSet(key) == key \in env
        urls == SelectSeq(rpc_keys, IsSet)
    IN IF urls = <<>> THEN <<PUBLIC_RPC>> ELSE urls

\* RPCPool.__init__ under the environment env
RPCPoolInit(env) ==
    /\ pool.constructed = "no"
    /\ LET urls == load_rpc_urls(env)
       IN pool' = [constructed |-> IF urls = <<>> THEN "ValueError" ELSE "ok",
                   env |-> env,
                   rpc_urls |-> urls,
                   current_index |-> 0,
                   health_status |-> [u \in Range(urls) |-> TRUE],
                   client |-> "-"]
    /\ UNCHANGED <<race, hc, pq, ws_connected, lst, eval, sp, now, rug, tr>>
    /\ UNCHANGED traderVars
    /\ UNCHANGED listenerVars

\* the random choice made among the endpoints flagged healthy only
CandidatesHealthy(p) == {u \in Range(p.rpc_urls) : p.health_status[u]}

\* the URLs random.choice(self.rpc_urls) can return
Candidates(p) == Range(p.rpc_urls)

\* a pool whose random selection moves the round-robin position as well
GetClientSharedIndex(random_selection, url) ==
    /\ pool.constructed = "ok"
    /\ IF random_selection
       THEN /\ url \in Candidates(pool)
            /\ pool' = [pool EXCEPT !.client = url,
                                    !.current_index = (@ + 1) % Len(pool.rpc_urls)]
       ELSE /\ url = pool.rpc_urls[pool.current_index + 1]
            /\ pool' = [pool EXCEPT !.client = url,
                                    !.current_index = (@ + 1) % Len(pool.rpc_urls)]
    /\ UNCHANGED <<race, hc, pq, ws_connected, lst, eval, sp, now, rug, tr>>
    /\ UNCHANGED traderVars
    /\ UNCHANGED listenerVars

\* RPCPool.get_client(random_selection) returning a client bound to url
GetClient(random_selection, url) ==
    /\ pool.constructed = "ok"
    /\ IF random_selection
       THEN /\ url \in Candidates(pool)
            /\ pool' = [pool EXCEPT !.client = url]
       ELSE /\ url = pool.rpc_urls[pool.current_index + 1]
            /\ pool' = [pool EXCEPT !.client = url,
                                    !.current_index = (@ + 1) % Len(pool.rpc_urls)]
    /\ UNCHANGED <<race, hc, pq, ws_connected, lst, eval, sp, now, rug, tr>>
    /\ UNCHANGED traderVars
    /\ UNCHANGED listenerVars

\* RPCPool.mark_unhealthy(url); a URL the pool does not hold is ignored
MarkUnhealthy(url) ==
    /\ pool.constructed = "ok"
    /\ IF url \in DOMAIN pool.health_status
       THEN pool' = [pool EXCEPT !.health_status[url] = FALSE]
       ELSE UNCHANGED pool
    /\ UNCHANGED <<race, hc, pq, ws_connected, lst, eval, sp, now, rug, tr>>
    /\ UNCHANGED traderVars
    /\ UNCHANGED listenerVars

\* RPCPool.health_check up to the first get_version
HealthCheckStart ==
    /\ pool.constructed = "ok"
    /\ hc.pc = "idle"
    /\ hc' = [pc |-> "probing", i |-> 1]
    /\ UNCHANGED <<pool, race, pq, ws_connected, lst, eval, sp, now, rug, tr>>
    /\ UNCHANGED traderVars
    /\ UNCHANGED listenerVars

ProbeOutcomes == {"version", "empty", "error"}      \* error: exception or the 5 s timeout

\* get_version of endpoint hc.i returns or fails: the flag of that URL is
\* set, the loop goes to the next URL or the function returns
ProbeReturn(outcome) ==
    /\ hc.pc = "probing"
    /\ pool' = [pool EXCEPT !.health_status[pool.rpc_urls[hc.i]] = (outcome = "version")]
    /\ hc' = IF hc.i < Len(pool.rpc_urls) THEN [hc EXCEPT !.i = @ + 1] ELSE NoHealthCheck
    /\ UNCHANGED <<race, pq, ws_connected, lst, eval, sp, now, rug, tr>>
    /\ UNCHANGED traderVars
    /\ UNCHANGED listenerVars

\* one call_rpc task: the outcome of its method call, whether the task has
\* finished, whether its client has been closed
NoCall == [result |-> "pending", done |-> FALSE, closed |-> FALSE]

CallOutcomes == {"value", "error"}

\* parallel_call up to the gather: one client and one call_rpc task per URL
ParallelCall ==
    /\ pool.constructed = "ok"
    /\ race.pc # "gather"
    /\ race' = [pc |-> "gather",
                call |-> [i \in 1..Len(pool.rpc_urls) |-> NoCall],
                first_ok |-> 0,
                result |-> 0]
    /\ UNCHANGED <<pool, hc, pq, ws_connected, lst, eval, sp, now, rug, tr>>
    /\ UNCHANGED traderVars
    /\ UNCHANGED listenerVars

\* call_rpc without the finally: a failed call ends the task, client open
CallRpcAfterNoFinally(outcome) ==
    [result |-> outcome, done |-> (outcome = "error"), closed |-> FALSE]

\* call_rpc after its method call returned or raised (lines 87-93): the
\* outcome is kept and client.close() of the finally is awaited
CallRpcAfter(outcome) == [result |-> outcome, done |-> FALSE, closed |-> FALSE]

\* the method call of task i returns a response or raises
CallReturn(i, outcome) ==
    /\ race.pc = "gather"
    /\ i \in DOMAIN race.call
    /\ race.call[i].result = "pending"
    /\ race' = [race EXCEPT !.call[i] = CallRpcAfter(outcome),
                            !.first_ok = IF @ = 0 /\ outcome = "value" THEN i ELSE @]
    /\ UNCHANGED <<pool, hc, pq, ws_connected, lst, eval, sp, now, rug, tr>>
    /\ UNCHANGED traderVars
    /\ UNCHANGED listenerVars

\* client.close() of task i returns, the task ends with its tuple
CloseReturn(i) ==
    /\ race.pc = "gather"
    /\ i \in DOMAIN race.call
    /\ race.call[i].result # "pending"
    /\ ~race.call[i].done
    /\ race' = [race EXCEPT !.call[i].done = TRUE, !.call[i].closed = TRUE]
    /\ UNCHANGED <<pool, hc, pq, ws_connected, lst, eval, sp, now, rug, tr>>
    /\ UNCHANGED traderVars
    /\ UNCHANGED listenerVars

\* the scan looks at the first endpoint only
FirstSuccessHeadOnly(call) == IF call[1].result = "value" THEN 1 ELSE 0

\* the scan of lines 101-103: the first task, in list order, with a result
\* and no error; 0 when there is none
FirstSuccess(call) ==
    LET ok == {i \in DOMAIN call : call[i].result = "value"}
    IN IF ok = {} THEN 0 ELSE CHOOSE i \in ok : \A j \in ok : i <= j

\* asyncio.gather returns when every task has finished; parallel_call then
\* returns the result found by the scan or raises
GatherReturn ==
    /\ race.pc = "gather"
    /\ \A i \in DOMAIN race.call : race.call[i].done
    /\ LET r == FirstSuccess(race.call)
       IN race' = [race EXCEPT !.pc = IF r = 0 THEN "raised" ELSE "returned",
                               !.result = r]
    /\ UNCHANGED <<pool, hc, pq, ws_connected, lst, eval, sp, now, rug, tr>>
    /\ UNCHANGED traderVars
    /\ UNCHANGED listenerVars

\* parallel_call on its own, over a pool built from any environment
NextRace ==
    \/ \E env \in Envs : RPCPoolInit(env)
    \/ ParallelCall
    \/ \E i \in 1..Len(rpc_keys), outcome \in CallOutcomes : CallReturn(i, outcome)
    \/ \E i \in 1..Len(rpc_keys) : CloseReturn(i)
    \/ GatherReturn

SpecRace == InitStream /\ [][NextRace]_vars

\* the environments that set at most MaxUrls of the variables
SmallEnvs == {env \in Envs : Cardinality(env) <= MaxUrls}

\* every operation of the pool, interleaved
NextPool ==
    \/ \E env \in SmallEnvs : RPCPoolInit(env)
    \/ \E random_selection \in BOOLEAN, url \in Range(rpc_keys) \cup {PUBLIC_RPC} :
            GetClient(random_selection, url)
    \/ \E url \in Range(rpc_keys) \cup {PUBLIC_RPC} : MarkUnhealthy(url)
    \/ HealthCheckStart
    \/ \E outcome \in ProbeOutcomes : ProbeReturn(outcome)
    \/ ParallelCall
    \/ \E i \in 1..Len(rpc_keys), outcome \in CallOutcomes : CallReturn(i, outcome)
    \/ \E i \in 1..Len(rpc_keys) : CloseReturn(i)
    \/ GatherReturn

SpecPool == InitStream /\ [][NextPool]_vars

----------------------------------------------------------------------------
(* PriceCalculator (src/price_calculator.py): one query at a time           *)
(* pq.pc is the await the query is suspended at:                            *)
(*   "account"    client.get_account_info of the pool (lines 140, 266)      *)
(*   "balances"   the gather of the two vault balances (lines 155, 280)     *)
(*   "sol_price"  get_sol_price_usd, called by get_token_price_usd (109)     *)
(*   "done"       the operation pq.op has returned pq.result                *)

\* RAYDIUM_POOL_V4_LAYOUT: the widths in bytes of its fields, in order:
\* 38 Int64ul, 12 Bytes(32), Padding(32), Padding(8 * 3)
RAYDIUM_POOL_V4_LAYOUT ==
    [i \in 1..52 |-> IF i <= 38 THEN 8 ELSE IF i <= 51 THEN 32 ELSE 24]

\* the number of bytes of a layout
RECURSIVE SizeOf(_)
SizeOf(layout) == IF layout = <<>> THEN 0 ELSE Head(layout) + SizeOf(Tail(layout))

\* Struct.parse field by field from offset: every field, padding included,
\* reads its width off the buffer of n bytes and fails when they are not there
RECURSIVE ParseFrom(_, _, _, _)
ParseFrom(layout, i, offset, n) ==
    IF i > Len(layout) THEN TRUE
    ELSE IF offset + layout[i] > n THEN FALSE
    ELSE ParseFrom(layout, i + 1, offset + layout[i], n)

\* a parse that stops after the last named field and reads no padding
ParseNoPadding(n) == ParseFrom(SubSeq(RAYDIUM_POOL_V4_LAYOUT, 1, 50), 1, 0, n)

\* RAYDIUM_POOL_V4_LAYOUT.parse(data) succeeds on a buffer of n bytes
Parse(n) == ParseFrom(RAYDIUM_POOL_V4_LAYOUT, 1, 0, n)

PriceOps == {"price_in_sol", "price_usd", "liquidity"}
AccountOutcomes == {"error", "no_value", "value"}
DataLens == {0, 8, 304, 500, 688, 720, 743, 744, 752}    \* bytes of account data
SolSides == {"base", "quote", "none"}      \* which of base_mint, quote_mint is SOL_MINT
Amounts == {0, 5, 20}                      \* raw vault balances
Decimals == {0, 1}
Infos == {NoInfo} \cup [some : {TRUE}, amount : Amounts, decimals : Decimals]
SolPrices == {150, 200}                    \* get_sol_price_usd: the fallback, a quote

Pow10(d) == 10^d

\* get_token_price_in_sol, get_token_price_usd or get_pool_liquidity_sol is
\* called and suspends at get_account_info
PriceCall(op) ==
    /\ pq.pc \in {"idle", "done"}
    /\ pq' = [NoQuery EXCEPT !.pc = "account", !.op = op]
    /\ UNCHANGED <<pool, race, hc, ws_connected, lst, eval, sp, now, rug, tr>>
    /\ UNCHANGED traderVars
    /\ UNCHANGED listenerVars

\* get_account_info returns (lines 140-148, 266-273): an exception, an
\* account without value or data, or data of data_len bytes that is parsed;
\* sol_side is what the parsed mints say
AccountReturn(outcome, data_len, sol_side) ==
    /\ pq.pc = "account"
    /\ IF outcome = "value" /\ data_len > 0 /\ Parse(data_len)
       THEN pq' = [pq EXCEPT !.pc = "balances", !.data_len = data_len,
                             !.parsed = TRUE, !.sol_side = sol_side]
       ELSE pq' = [pq EXCEPT !.pc = "done",
                             !.data_len = IF outcome = "value" THEN data_len ELSE 0]
    /\ UNCHANGED <<pool, race, hc, ws_connected, lst, eval, sp, now, rug, tr>>
    /\ UNCHANGED traderVars
    /\ UNCHANGED listenerVars

\* lines 170-171: a reserve adjusted by its decimals, as a fraction
Adjusted(info) == [num |-> info.amount, den |-> Pow10(info.decimals)]

\* a / b and a = b on fractions of naturals
Ratio(a, b) == [num |-> a.num * b.den, den |-> a.den * b.num]
SameValue(a, b) == a.num * b.den = b.num * a.den

\* the price as token reserve over SOL reserve
PriceInSolInverted(sol_side, base_info, quote_info) ==
    IF ~base_info.some \/ ~quote_info.some THEN NoValue
    ELSE IF base_info.amount = 0 \/ quote_info.amount = 0 THEN NoValue
    ELSE IF sol_side = "base"
         THEN [some |-> TRUE, num |-> quote_info.amount * Pow10(base_info.decimals),
                              den |-> base_info.amount * Pow10(quote_info.decimals)]
    ELSE IF sol_side = "quote"
         THEN [some |-> TRUE, num |-> base_info.amount * Pow10(quote_info.decimals),
                              den |-> quote_info.amount * Pow10(base_info.decimals)]
    ELSE NoValue

\* lines 160-191: the price in SOL from the two balances
PriceInSol(sol_side, base_info, quote_info) ==
    IF ~base_info.some \/ ~quote_info.some THEN NoValue
    ELSE IF base_info.amount = 0 \/ quote_info.amount = 0 THEN NoValue
    ELSE IF sol_side = "base"
         THEN [some |-> TRUE, num |-> base_info.amount * Pow10(quote_info.decimals),
                              den |-> quote_info.amount * Pow10(base_info.decimals)]
    ELSE IF sol_side = "quote"
         THEN [some |-> TRUE, num |-> quote_info.amount * Pow10(base_info.decimals),
                              den |-> base_info.amount * Pow10(quote_info.decimals)]
    ELSE NoValue

\* lines 285-308: twice the ui_amount of the SOL side
LiquiditySol(sol_side, base_info, quote_info) ==
    IF ~base_info.some \/ ~quote_info.some THEN NoValue
    ELSE IF base_info.amount = 0 \/ quote_info.amount = 0 THEN NoValue
    ELSE IF sol_side = "base"
         THEN [some |-> TRUE, num |-> 2 * base_info.amount, den |-> Pow10(base_info.decimals)]
    ELSE IF sol_side = "quote"
         THEN [some |-> TRUE, num |-> 2 * quote_info.amount, den |-> Pow10(quote_info.decimals)]
    ELSE NoValue

\* the two _get_token_account_balance calls return
BalancesReturn(base_info, quote_info) ==
    /\ pq.pc = "balances"
    /\ LET v == IF pq.op = "liquidity"
                THEN LiquiditySol(pq.sol_side, base_info, quote_info)
                ELSE PriceInSol(pq.sol_side, base_info, quote_info)
       IN IF pq.op = "price_usd" /\ v.some
          THEN pq' = [pq EXCEPT !.pc = "sol_price", !.price_in_sol = v,
                                !.base_info = base_info, !.quote_info = quote_info]
          ELSE pq' = [pq EXCEPT !.pc = "done", !.price_in_sol = v, !.result = v,
                                !.base_info = base_info, !.quote_info = quote_info]
    /\ UNCHANGED <<pool, race, hc, ws_connected, lst, eval, sp, now, rug, tr>>
    /\ UNCHANGED traderVars
    /\ UNCHANGED listenerVars

\* get_sol_price_usd returns to get_token_price_usd (lines 109-119); a
\* falsy quote gives None
SolPriceReturnBody(sol_price_usd) ==
    /\ pq.pc = "sol_price"
    /\ pq' = [pq EXCEPT !.pc = "done",
                        !.result = IF sol_price_usd = 0 THEN NoValue
                                   ELSE [some |-> TRUE,
                                         num |-> pq.price_in_sol.num * sol_price_usd,
                                         den |-> pq.price_in_sol.den]]

SolPriceReturn(sol_price_usd) ==
    /\ SolPriceReturnBody(sol_price_usd)
    /\ UNCHANGED <<pool, race, hc, ws_connected, lst, eval, sp, now, rug, tr>>
    /\ UNCHANGED traderVars
    /\ UNCHANGED listenerVars

NextPrice ==
    \/ \E op \in PriceOps : PriceCall(op)
    \/ \E outcome \in AccountOutcomes, data_len \in DataLens, sol_side \in SolSides :
            AccountReturn(outcome, data_len, sol_side)
    \/ \E base_info \in Infos, quote_info \in Infos : BalancesReturn(base_info, quote_info)
    \/ \E sol_price_usd \in SolPrices : SolPriceReturn(sol_price_usd)

SpecPrice == InitStream /\ [][NextPrice]_vars

\* ---------------------------------------------------------------------
\* get_sol_price_usd and its cache (price_calculator.py 219-256)

SOL_PRICE_CACHE_SECONDS == 60
FALLBACK_SOL_PRICE == 150
MaxClock == 120                            \* seconds of modelled time

FetchOutcomes == {"ok", "non200", "missing", "timeout", "exception"}

\* time.time() advances
Tick(d) ==
    /\ now + d <= MaxClock
    /\ now' = now + d
    /\ UNCHANGED <<pool, race, hc, pq, ws_connected, lst, eval, sp, rug, tr>>
    /\ UNCHANGED traderVars
    /\ UNCHANGED listenerVars

\* a cache hit that counts a value of exactly 60 seconds as fresh
CacheFreshInclusive ==
    /\ sp.sol_price_cache # 0
    /\ now - sp.sol_price_timestamp <= SOL_PRICE_CACHE_SECONDS

\* line 227: a value is cached and is less than 60 seconds old
CacheFresh ==
    /\ sp.sol_price_cache # 0
    /\ now - sp.sol_price_timestamp < SOL_PRICE_CACHE_SECONDS

\* the value goes to the caller: get_token_price_usd (line 109) or another
Deliver(caller, sol_price_usd) ==
    IF caller = "price_usd" THEN SolPriceReturnBody(sol_price_usd) ELSE pq' = pq

\* get_sol_price_usd is called (lines 224-239): returns the fresh cached
\* value, or suspends at the request to the quote API
SolPriceCall(caller) ==
    /\ sp.pc = "idle"
    /\ caller = "price_usd" => pq.pc = "sol_price"
    /\ IF CacheFresh
       THEN /\ sp' = [sp EXCEPT !.caller = caller, !.outcome = "-",
                                !.ret = sp.sol_price_cache, !.fetched = FALSE]
            /\ Deliver(caller, sp.sol_price_cache)
       ELSE /\ sp' = [sp EXCEPT !.pc = "fetching", !.caller = caller,
                                !.outcome = "-", !.fetched = TRUE]
            /\ pq' = pq
    /\ UNCHANGED <<pool, race, hc, ws_connected, lst, eval, now, rug, tr>>
    /\ UNCHANGED traderVars
    /\ UNCHANGED listenerVars

\* a failed fetch gives no value
FetchResultNone(outcome, sol_price) ==
    IF outcome = "ok" THEN sol_price ELSE 0

\* lines 240-256: the quote of a 200 response that has one, else 150.0
FetchResult(outcome, sol_price) ==
    IF outcome = "ok" THEN sol_price ELSE FALLBACK_SOL_PRICE

\* the request to the quote API ends (lines 239-256): only a quote is cached
FetchReturn(outcome, sol_price) ==
    /\ sp.pc = "fetching"
    /\ sp' = [sp EXCEPT !.pc = "idle", !.outcome = outcome,
                        !.ret = FetchResult(outcome, sol_price),
                        !.sol_price_cache = IF outcome = "ok" THEN sol_price ELSE @,
                        !.sol_price_timestamp = IF outcome = "ok" THEN now ELSE @]
    /\ Deliver(sp.caller, FetchResult(outcome, sol_price))
    /\ UNCHANGED <<pool, race, hc, ws_connected, lst, eval, now, rug, tr>>
    /\ UNCHANGED traderVars
    /\ UNCHANGED listenerVars

\* the inputs: steps of 59 and 60 seconds, quotes of 140 and 200, reserves
\* of 5 and 20, a pool account of the full layout size
NextQuote ==
    \/ PriceCall("price_usd")
    \/ \E outcome \in AccountOutcomes, sol_side \in SolSides :
            AccountReturn(outcome, SizeOf(RAYDIUM_POOL_V4_LAYOUT), sol_side)
    \/ \E base_info, quote_info \in
            {NoInfo, [some |-> TRUE, amount |-> 5, decimals |-> 0],
                     [some |-> TRUE, amount |-> 20, decimals |-> 0]} :
            BalancesReturn(base_info, quote_info)
    \/ \E caller \in {"direct", "price_usd"} : SolPriceCall(caller)
    \/ \E outcome \in FetchOutcomes, sol_price \in {140, 200} :
            FetchReturn(outcome, sol_price)
    \/ \E d \in {59, 60} : Tick(d)

SpecQuote == InitStream /\ [][NextQuote]_vars

\* ---------------------------------------------------------------------
\* RugChecker.check_token_safety and its five checks (rug_checker.py)

MIN_LIQUIDITY_SOL == 5
MAX_HOLDER_PERCENT == 40

NoLiquidity == 0 - 1                       \* liquidity_sol is None

Passed(check) == {c \in CheckNames : check[c] = "pass"}

\* lines 97-105
RiskLevel(checks_passed) ==
    IF checks_passed >= 4 THEN "LOW"
    ELSE IF checks_passed >= 3 THEN "MEDIUM"
    ELSE "HIGH"

\* a floor that liquidity has to exceed
LiquidityCheckStrict(liquidity_sol) ==
    IF liquidity_sol = NoLiquidity THEN "pass"
    ELSE IF liquidity_sol <= MIN_LIQUIDITY_SOL THEN "fail"
    ELSE "pass"

\* _check_liquidity, lines 233-252
LiquidityCheck(liquidity_sol) ==
    IF liquidity_sol = NoLiquidity THEN "pass"
    ELSE IF liquidity_sol < MIN_LIQUIDITY_SOL THEN "fail"
    ELSE "pass"

\* an authority check whose own error counts as a pass
AuthorityCheckErrorPasses(outcome) ==
    IF outcome = "exception" THEN "pass"
    ELSE IF outcome = "no_value" THEN "fail"
    ELSE IF outcome = "authority" THEN "fail"
    ELSE "pass"

\* _check_mint_authority (136-161) and _check_freeze_authority (169-192)
\* after get_account_info
AuthorityCheck(outcome) ==
    IF outcome = "exception" THEN "fail"
    ELSE IF outcome = "no_value" THEN "fail"
    ELSE IF outcome = "authority" THEN "fail"
    ELSE "pass"

\* _check_holder_distribution after get_token_supply (208-231)
HolderCheck(outcome, total_supply, top_holder_amount) ==
    IF outcome = "exception" THEN "fail"
    ELSE IF total_supply = 0 THEN "fail"
    ELSE IF top_holder_amount * 100 > MAX_HOLDER_PERCENT * total_supply THEN "fail"
    ELSE "pass"

\* _check_creator_history after get_signatures_for_address (264-292): its
\* except branch returns passed = True
CreatorCheck(outcome, n_sigs, recent_count) ==
    IF outcome = "exception" THEN "pass"
    ELSE IF n_sigs < 3 THEN "fail"
    ELSE IF recent_count > 10 THEN "fail"
    ELSE "pass"

RugUnchanged ==
    /\ UNCHANGED <<pool, race, hc, pq, ws_connected, lst, eval, sp, now, tr>>
    /\ UNCHANGED traderVars
    /\ UNCHANGED listenerVars

\* check_token_safety is called and awaits the gather of line 61:
\* _check_liquidity and _skip_check have no await and return at once, the
\* other checks suspend at their RPC call
CheckTokenSafety(creator_address, liquidity_sol) ==
    /\ rug.pc \in {"idle", "done"}
    /\ rug' = [NoRug EXCEPT
                  !.pc = "gather", !.creator = creator_address,
                  !.liquidity_sol = liquidity_sol,
                  !.check["liquidity"] = LiquidityCheck(liquidity_sol),
                  !.check["creator_history"] =
                        IF creator_address THEN "pending" ELSE "pass"]
    /\ RugUnchanged

\* get_account_info returns to _check_mint_authority
MintReturn(outcome) ==
    /\ rug.pc = "gather"
    /\ rug.check["mint_authority"] = "pending"
    /\ rug' = [rug EXCEPT !.check["mint_authority"] = AuthorityCheck(outcome),
                          !.err["mint_authority"] = (outcome = "exception")]
    /\ RugUnchanged

\* get_account_info returns to _check_freeze_authority
FreezeReturn(outcome) ==
    /\ rug.pc = "gather"
    /\ rug.check["freeze_authority"] = "pending"
    /\ rug' = [rug EXCEPT !.check["freeze_authority"] = AuthorityCheck(outcome),
                          !.err["freeze_authority"] = (outcome = "exception")]
    /\ RugUnchanged

\* get_token_largest_accounts returns to _check_holder_distribution (201-205)
LargestReturn(outcome) ==
    /\ rug.pc = "gather"
    /\ rug.check["holder_distribution"] = "pending"
    /\ rug.holder_pc = "largest"
    /\ IF outcome = "holders"
       THEN rug' = [rug EXCEPT !.holder_pc = "supply"]
       ELSE rug' = [rug EXCEPT !.check["holder_distribution"] = "fail",
                               !.err["holder_distribution"] = (outcome = "exception")]
    /\ RugUnchanged

\* get_token_supply returns to _check_holder_distribution (208-231)
SupplyReturn(outcome, total_supply, top_holder_amount) ==
    /\ rug.pc = "gather"
    /\ rug.check["holder_distribution"] = "pending"
    /\ rug.holder_pc = "supply"
    /\ rug' = [rug EXCEPT
                  !.check["holder_distribution"] =
                        HolderCheck(outcome, total_supply, top_holder_amount),
                  !.err["holder_distribution"] = (outcome = "exception")]
    /\ RugUnchanged

\* get_signatures_for_address returns to _check_creator_history
SigsReturn(outcome, n_sigs, recent_count) ==
    /\ rug.pc = "gather"
    /\ rug.check["creator_history"] = "pending"
    /\ recent_count <= n_sigs
    /\ rug' = [rug EXCEPT
                  !.check["creator_history"] = CreatorCheck(outcome, n_sigs, recent_count),
                  !.err["creator_history"] = (outcome = "exception")]
    /\ RugUnchanged

\* a tally that leaves the checks whose call raised out of the failures
RugGatherReturnIgnoresErrors ==
    /\ rug.pc = "gather"
    /\ \A c \in CheckNames : rug.check[c] # "pending"
    /\ LET checks_passed ==
               5 - Cardinality({c \in CheckNames : rug.check[c] = "fail" /\ ~rug.err[c]})
       IN rug' = [rug EXCEPT !.pc = "done",
                             !.checks_passed = checks_passed,
                             !.checks_failed = 5 - checks_passed,
                             !.risk_level = RiskLevel(checks_passed),
                             !.is_safe = IsSafe(checks_passed)]
    /\ RugUnchanged

\* the gather returns once all five have returned; lines 79-117
RugGatherReturn ==
    /\ rug.pc = "gather"
    /\ \A c \in CheckNames : rug.check[c] # "pending"
    /\ LET checks_passed == Cardinality(Passed(rug.check))
       IN rug' = [rug EXCEPT !.pc = "done",
                             !.checks_passed = checks_passed,
                             !.checks_failed = 5 - checks_passed,
                             !.risk_level = RiskLevel(checks_passed),
                             !.is_safe = IsSafe(checks_passed)]
    /\ RugUnchanged

\* the inputs: liquidity around the floor of 5; a top holder of 40 or 45
\* of a supply of 100 (or a supply of 0); 0 to 20 signatures of the
\* creator, up to 11 of them of the last 24 hours
NextRug ==
    \/ \E creator_address \in BOOLEAN, liquidity_sol \in {NoLiquidity, 0, 4, 5, 10} :
            CheckTokenSafety(creator_address, liquidity_sol)
    \/ \E outcome \in {"exception", "no_value", "authority", "renounced"} :
            MintReturn(outcome)
    \/ \E outcome \in {"exception", "no_value", "authority", "renounced"} :
            FreezeReturn(outcome)
    \/ \E outcome \in {"exception", "empty", "holders"} : LargestReturn(outcome)
    \/ \E outcome \in {"exception", "supply"}, total_supply \in {0, 100},
          top_holder_amount \in {40, 45} :
            SupplyReturn(outcome, total_supply, top_holder_amount)
    \/ \E outcome \in {"exception", "sigs"}, n_sigs \in {0, 2, 3, 20},
          recent_count \in {0, 10, 11} :
            SigsReturn(outcome, n_sigs, recent_count)
    \/ RugGatherReturn

SpecRug == InitStream /\ [][NextRug]_vars

\* ---------------------------------------------------------------------
\* JupiterTrader.execute_buy / execute_sell (jupiter_trader.py) and the
\* task of analyze_and_trade_pool that awaits execute_buy

SimulatedId == "simulated"                 \* f"simulated-{int(time.time())}"

TradeUnchanged ==
    /\ UNCHANGED <<pool, race, hc, pq, ws_connected, lst, eval, sp, now, rug>>
    /\ UNCHANGED <<DRY_RUN, running, positions, stats, tasks, mon, main,
                   accounted, sell_calls>>
    /\ UNCHANGED listenerVars

\* the call as it starts (lines 162-166, 245-249): it awaits get_quote
Called(side, dry_run, caller) ==
    [NoTrade EXCEPT !.pc = "quote", !.side = side, !.dry_run = dry_run,
                    !.caller = caller]

\* execute_buy or execute_sell is called by something other than a task
ExecuteCall(side, dry_run) ==
    /\ tr.pc \in {"idle", "done"}
    /\ tr.caller = NoCaller
    /\ tr' = Called(side, dry_run, NoCaller)
    /\ TradeUnchanged

\* lines 487-490: the task calls execute_buy(token_mint, dry_run=config.DRY_RUN)
ExecuteBuy(r) ==
    /\ r.pc = "buying"
    /\ tr.pc \in {"idle", "done"}
    /\ tr.caller = NoCaller
    /\ tr' = Called("buy", DRY_RUN, r)
    /\ TradeUnchanged

\* an exception that leaves the call
OnExceptionPropagate(t, point) ==
    [t EXCEPT !.pc = "done", !.failed = point, !.raised = TRUE]

\* lines 224-226, 298-300: any exception is logged and None returned
OnException(t, point) ==
    [t EXCEPT !.pc = "done", !.failed = point, !.result = NoTx]

\* a call that always takes the real branch
SimulatesNever(dry_run) == FALSE

\* lines 192, 274: if dry_run
Simulates(dry_run) == dry_run

\* get_quote returned (lines 166-173, 249-257)
QuoteReturn(quote) ==
    /\ tr.pc = "quote"
    /\ tr' = IF quote = "None"
             THEN [tr EXCEPT !.pc = "done", !.failed = "quote", !.result = NoTx]
             ELSE [tr EXCEPT !.pc = "swap"]
    /\ TradeUnchanged

\* get_swap_transaction returned (lines 176-212, 260-289): with a
\* transaction it is decoded and signed, a client is obtained and the
\* simulation or the submission is awaited
SwapReturn(swap_tx_b64, sign) ==
    /\ tr.pc = "swap"
    /\ tr' = IF swap_tx_b64 = "None"
             THEN [tr EXCEPT !.pc = "done", !.failed = "swap", !.result = NoTx]
             ELSE IF sign = "raise"
             THEN OnException(tr, "sign")
             ELSE IF Simulates(tr.dry_run)
             THEN [tr EXCEPT !.pc = "simulate", !.signed = TRUE, !.client = "open",
                             !.simulated = TRUE]
             ELSE [tr EXCEPT !.pc = "send", !.signed = TRUE, !.client = "open",
                             !.submitted = TRUE]
    /\ TradeUnchanged

\* simulate_transaction returned or raised (lines 195-196, 276-277); a
\* result is followed by await client.close()
SimulateReturn(outcome) ==
    /\ tr.pc = "simulate"
    /\ tr' = IF outcome = "raise"
             THEN OnException(tr, "simulate")
             ELSE [tr EXCEPT !.pc = "close", !.sim_err = (outcome = "err")]
    /\ TradeUnchanged

\* send_transaction returned or raised (lines 212-219, 289-293)
SubmitReturn(outcome, tx_sig) ==
    /\ tr.pc = "send"
    /\ tr' = IF outcome = "raise"
             THEN OnException(tr, "submit")
             ELSE [tr EXCEPT !.pc = "close", !.tx_sig = tx_sig]
    /\ TradeUnchanged

\* client.close() returned (lines 196-206, 219-222, 277-284, 293-296)
TradeCloseReturn ==
    /\ tr.pc = "close"
    /\ tr' = IF Simulates(tr.dry_run)
             THEN IF tr.sim_err
                  THEN [tr EXCEPT !.pc = "done", !.client = "closed",
                                  !.failed = "sim_err", !.result = NoTx]
                  ELSE [tr EXCEPT !.pc = "done", !.client = "closed",
                                  !.result = SimulatedId]
             ELSE [tr EXCEPT !.pc = "done", !.client = "closed", !.result = tr.tx_sig]
    /\ TradeUnchanged

\* execute_buy returns to its task (lines 487-517)
BuyDone ==
    /\ tr.pc = "done"
    /\ tr.caller # NoCaller
    /\ BuyReturnBody(tr.caller, tr.result)
    /\ tr' = NoTrade
    /\ UNCHANGED <<DRY_RUN, running, mon, main, accounted, sell_calls>>
    /\ UNCHANGED <<pool, race, hc, pq, ws_connected, lst, eval, sp, now, rug>>
    /\ UNCHANGED listenerVars

NextTrade ==
    \/ \E k \in Tokens : Spawn(k)
    \/ \E r \in Live : Admit(r)
    \/ \E r \in Live, passed \in ChecksPassed : ScreenReturn(r, passed)
    \/ \E r \in Live, p \in Prices \cup {NoPrice} : PriceReturn(r, p)
    \/ \E r \in Live : ExecuteBuy(r)
    \/ \E side \in {"buy", "sell"}, dry_run \in BOOLEAN : ExecuteCall(side, dry_run)
    \/ \E quote \in {"None", "quote"} : QuoteReturn(quote)
    \/ \E swap_tx_b64 \in {"None", "tx"}, sign \in {"raise", "signed"} :
            SwapReturn(swap_tx_b64, sign)
    \/ \E outcome \in {"raise", "err", "ok"} : SimulateReturn(outcome)
    \/ \E outcome \in {"raise", "sig"}, tx_sig \in TxIds : SubmitReturn(outcome, tx_sig)
    \/ TradeCloseReturn
    \/ BuyDone

SpecTrade == Init /\ [][NextTrade]_vars

----------------------------------------------------------------------------
(* The exit rules on their own, over a grid of P&L percentages and hold     *)
(* times                                                                    *)

InitExit ==
    /\ DRY_RUN \in BOOLEAN
    /\ running = TRUE
    /\ positions = [k \in Tokens |-> NoPos]
    /\ stats = [rug_checks_passed |-> 0, rug_checks_failed |-> 0,
                trades_executed |-> 0, trades_simulated |-> 0,
                wins |-> 0, losses |-> 0, today_trades |-> 0]
    /\ tasks = EmptyBag
    /\ mon = [pc |-> "init", queue |-> {}, cur |-> NoItem]
    /\ main = [pc |-> "run", queue |-> {}, cur |-> NoItem]
    /\ accounted = [i \in 1..MaxIds |-> 0]
    /\ sell_calls = 0
    /\ processed_pools = {}
    /\ pools_detected = 0
    /\ pools_analyzed = 0
    /\ pending = [s \in Sigs |-> 0]
    /\ frames = [s \in Sigs |-> 0]
    /\ analyses = [s \in Sigs |-> 0]
    /\ eval \in [pnl : (-MaxLoss)..MaxGain, hold_time : HoldSamples, reason : {"unset"}]
    /\ ExtInit

\* lines 593-614 applied to one (pnl, hold_time)
EvaluateExit ==
    /\ eval.reason = "unset"
    /\ eval' = [eval EXCEPT !.reason = ExitReason(eval.pnl * PnlScale, eval.hold_time)]
    /\ UNCHANGED traderVars
    /\ UNCHANGED listenerVars
    /\ UNCHANGED extVars

NextExit == EvaluateExit

SpecExit == InitExit /\ [][NextExit]_vars

----------------------------------------------------------------------------
(* Properties                                                               *)

\* a new Position object is stored under key k in this step
Opened(k) == positions'[k] # NoPos /\ positions'[k].id # positions[k].id

\* the key k loses its Position in this step
Removed(k) == positions[k] # NoPos /\ positions'[k] = NoPos

\* C1: in every reachable state the number of open positions is at most
\* MAX_POSITIONS, also when analysis tasks for different tokens overlap.
C1_OpenWithinMax == NumOpen(positions) <= MAX_POSITIONS

\* C2: a task that starts while the open-position count is >= MAX_POSITIONS
\* or today_trades >= MAX_DAILY_TRADES ends at once: it does not go on to
\* screening or buying, and positions and counters stay as they were.
C2_RejectedAtLimit ==
    [][\A r \in Live :
          (/\ r.pc = "start"
           /\ CopiesIn(r, tasks') < CopiesIn(r, tasks)
           /\ \/ NumOpen(positions) >= MAX_POSITIONS
              \/ stats.today_trades >= MAX_DAILY_TRADES)
          => /\ tasks' = tasks (-) One(r)
             /\ positions' = positions
             /\ stats' = stats]_vars

\* C2 case: a task is about to take its first step with a limit reached,
\* once by the daily counter alone and once by the open positions alone
C2_Witness ==
    /\ \E r \in Live : r.pc = "start"
    /\ stats.today_trades >= MAX_DAILY_TRADES
    /\ NumOpen(positions) < MAX_POSITIONS

C2_WitnessOpen ==
    /\ \E r \in Live : r.pc = "start"
    /\ stats.today_trades < MAX_DAILY_TRADES
    /\ NumOpen(positions) >= MAX_POSITIONS

\* C3: while a position for a token is open, no second entry for that token
\* is opened: the record under the key is not replaced by another Position.
C3_UniquePerToken ==
    [][\A k \in Tokens :
          (positions[k] # NoPos /\ positions'[k] # NoPos)
          => positions'[k].id = positions[k].id]_vars

\* C4: a Position is stored only by the step in which execute_buy returned a
\* non-null id to a task for that token; that id is its entry_tx and the
\* trade is counted; a null result leaves positions and counters unchanged.
C4_EntryAfterBuy ==
    [][/\ \A k \in Tokens :
            Opened(k) =>
                \E r \in Live, tx \in TxIds :
                    /\ r.pc = "buying" /\ r.token = k
                    /\ BuyReturn(r, tx)
                    /\ positions'[k].entry_tx = tx
                    /\ positions'[k].entry_price_usd = r.price_usd
                    /\ stats'.today_trades = stats.today_trades + 1
       /\ \A r \in Live : BuyReturn(r, NoTx) => UNCHANGED <<positions, stats>>]_vars

\* C4 case: a position registered from a returned trade id, counted once
C4_Witness ==
    \E k \in Tokens :
        /\ positions[k] # NoPos
        /\ positions[k].entry_tx \in TxIds
        /\ stats.today_trades = 1

\* C5: in real mode a position leaves the open set only after the sell path
\* of the trade executor has been invoked for the exit.
C5_SellBeforeRemoval ==
    [][\A k \in Tokens : (Removed(k) /\ ~DRY_RUN) => sell_calls > 0]_vars

\* the coroutine that completes an exit_position for item in this step
ExitCompletes(co, k) ==
    /\ co.pc \in {"exit_save", "c_save"}
    /\ co.cur.token = k
    /\ co.cur.id = positions[k].id

\* C6: a Position under a key changes only by leaving through the
\* exit_position that was called for it (never replaced, never removed on
\* behalf of another object), and no Position object is booked twice.
C6_LeavesOnceThroughExit ==
    /\ [][\A k \in Tokens :
            positions[k] # NoPos =>
                \/ positions'[k] # NoPos /\ positions'[k].id = positions[k].id
                \/ positions'[k] = NoPos /\ (ExitCompletes(mon, k) \/ ExitCompletes(main, k))]_vars
    /\ [](\A i \in 1..MaxIds : accounted[i] <= 1)

\* C7: for every open position lowest_price <= entry price <= highest_price;
\* a price observed by the valuation loop lies within the extremes from
\* that step on; highest_price never decreases, lowest_price never increases.
C7_MonotoneExtremes ==
    /\ [](\A k \in OpenTokens(positions) :
            /\ positions[k].lowest_price <= positions[k].entry_price_usd
            /\ positions[k].entry_price_usd <= positions[k].highest_price)
    /\ [][\A k \in Tokens :
            (positions[k] # NoPos /\ positions'[k] # NoPos
                /\ positions'[k].id = positions[k].id)
            => /\ positions'[k].highest_price >= positions[k].highest_price
               /\ positions'[k].lowest_price <= positions[k].lowest_price
               /\ positions'[k].entry_price_usd = positions[k].entry_price_usd
               /\ \A p \in Prices, h \in HoldTimes :
                    (MonPrice(p, h) /\ mon.cur.token = k /\ mon.cur.id = positions[k].id)
                    => /\ positions'[k].lowest_price <= p
                       /\ p <= positions'[k].highest_price]_vars

\* C7 case: an open position that has seen a price below and a price above
\* its entry price
C7_Witness ==
    \E k \in OpenTokens(positions) :
        /\ positions[k].lowest_price < positions[k].entry_price_usd
        /\ positions[k].entry_price_usd < positions[k].highest_price

\* C8: the exit reason is the first matching rule in the order StopLoss,
\* TakeProfitTier2, TakeProfitTier1, TimeoutLoss, and none when no rule
\* matches; pnl = -25 held 90 minutes exits as STOP_LOSS.
C8_ExitPriority ==
    eval.reason # "unset" =>
        LET sl == eval.pnl <= STOP_LOSS_PERCENT
            tp2 == eval.pnl >= TAKE_PROFIT_2
            tp1 == eval.pnl >= TAKE_PROFIT_1
            to == eval.hold_time > TIMEOUT_MINUTES /\ eval.pnl < SMALL_LOSS_PERCENT
        IN /\ sl => eval.reason = "STOP_LOSS"
           /\ (~sl /\ tp2) => eval.reason = "TAKE_PROFIT_2"
           /\ (~sl /\ ~tp2 /\ tp1) => eval.reason = "TAKE_PROFIT_1"
           /\ (~sl /\ ~tp2 /\ ~tp1 /\ to) => eval.reason = "TIMEOUT_LOSS"
           /\ (~sl /\ ~tp2 /\ ~tp1 /\ ~to) => eval.reason = "None"
           /\ (eval.pnl = -25 /\ eval.hold_time = 90) => eval.reason = "STOP_LOSS"

\* C8 case: both StopLoss and TimeoutLoss match and the rules have been applied
C8_Witness ==
    /\ eval.pnl = -25 /\ eval.hold_time = 90
    /\ eval.reason = "STOP_LOSS"

\* C9: at the step in which the clean-up of main finishes (the database
\* pool is released), no position is left open.
C9_CleanupClosesAll ==
    [][(main.pc # "done" /\ main'.pc = "done") => OpenTokens(positions') = {}]_vars

\* C10: however often a signature is delivered and in whatever order its
\* tasks run, exactly one analyze_new_pool run gets past the check:
\* pools_analyzed counts one per signature analysed.
C10_OneAnalysisPerSignature ==
    /\ \A s \in Sigs : analyses[s] <= 1
    /\ \A s \in Sigs : (frames[s] > 0 /\ pending[s] = 0) => analyses[s] = 1
    /\ pools_analyzed = Cardinality({s \in Sigs : analyses[s] > 0})

\* C10 case: a signature delivered twice, both tasks have run
C10_Witness ==
    \E s \in Sigs : frames[s] >= 2 /\ pending[s] = 0 /\ pools_analyzed = 1


\* C11: the n-th consecutive failure of the connection or the stream waits
\* min(5 * 2^(n-1), 300) seconds, whatever the kind of the failure: 5, 10,
\* 20, ... and 300 from the seventh on.
C11_BackoffDoubles ==
    lst.pc \in Sleeping =>
        lst.wait = Min(RECONNECT_DELAY * 2^(lst.fails - 1), max_reconnect_delay)

\* C12: after a successful subscription the delay is 5 s: while the stream
\* is read reconnect_delay is 5, and the first failure that follows a
\* subscription waits 5 s whatever the delay had grown to before.
C12_ResetAfterSubscribe ==
    /\ lst.pc = "reading" => lst.reconnect_delay = RECONNECT_DELAY
    /\ (lst.pc \in Sleeping /\ lst.subs /\ lst.fails = 1) => lst.wait = RECONNECT_DELAY

\* C12 case: the delay had grown to 20 s or more when the subscription
\* succeeded, and the failure after it waits 5 s
C12_Witness ==
    /\ lst.pc \in Sleeping /\ lst.subs /\ lst.fails = 1
    /\ lst.prior >= 20
    /\ lst.wait = RECONNECT_DELAY

\* C13: once state.running is cleared the listener reads at most one more
\* frame and starts no new connection attempt.
C13_CooperativeStop ==
    /\ [](lst.after_stop <= 1)
    /\ [][(~running /\ lst.pc # "connecting") => lst'.pc # "connecting"]_vars

\* C14: ws_connected is false whenever no connection is open, and while
\* running is set a connection that ends is followed by the sleep before a
\* new attempt or by the attempt itself, never by the end of the listener.
C14_DisconnectedWhenClosed ==
    /\ [](~lst.open => ~ws_connected)
    /\ [][(running /\ lst.open /\ ~lst'.open)
            => lst'.pc \in Sleeping \cup {"connecting"}]_vars


\* C15: parallel_call returns a result whenever the call of at least one
\* endpoint succeeded, whichever the others that failed, and raises only
\* when the call of every endpoint failed.
C15_RaceSucceedsIfAnySucceeds ==
    /\ race.pc = "returned" =>
            /\ race.result \in DOMAIN race.call
            /\ race.call[race.result].result = "value"
    /\ race.pc = "raised" => \A i \in DOMAIN race.call : race.call[i].result = "error"

\* C15 case: the first endpoint failed, a later one succeeded, and
\* parallel_call has returned
C15_Witness ==
    /\ race.pc = "returned"
    /\ race.call[1].result = "error"
    /\ race.result > 1

\* C16: parallel_call returns the result of the call that succeeded first
\* in time, and can return as soon as that call has succeeded, without
\* waiting for the calls still pending.
C16_FirstSuccessInTime ==
    /\ race.pc = "returned" => race.result = race.first_ok
    /\ (race.pc = "gather" /\ race.first_ok # 0 /\ race.call[race.first_ok].done)
            => ENABLED GatherReturn

\* C17: when parallel_call has returned or raised, the client of every
\* endpoint has been closed.
C17_AllClientsClosed ==
    race.pc \in {"returned", "raised"} => \A i \in DOMAIN race.call : race.call[i].closed

\* C17 case: a race of three endpoints or more with a winner and a failed
\* endpoint has returned
C17_Witness ==
    /\ race.pc = "returned"
    /\ Len(pool.rpc_urls) >= 3
    /\ \E i \in DOMAIN race.call : race.call[i].result = "error"

\* C18: a pool is never constructed from an environment that sets no
\* endpoint URL: the constructor raises.
C18_EmptyConfigFails ==
    (pool.constructed # "no" /\ pool.env = {}) => pool.constructed = "ValueError"

\* C19: the endpoint list of a constructed pool never changes; a step of
\* health_check changes nothing of the pool but the health flags; an
\* endpoint flagged unhealthy can still be returned by get_client, and
\* parallel_call calls every endpoint of the list whatever its flag.
C19_HealthIsInformational ==
    /\ [][pool.constructed = "ok" => pool'.rpc_urls = pool.rpc_urls]_vars
    /\ [][hc' # hc => /\ [pool' EXCEPT !.health_status = pool.health_status] = pool
                       /\ DOMAIN pool'.health_status = DOMAIN pool.health_status
                       /\ race' = race]_vars
    /\ [](pool.constructed = "ok" =>
            \A u \in Range(pool.rpc_urls) :
                ~pool.health_status[u] => ENABLED GetClient(TRUE, u))
    /\ [](race.pc = "gather" => DOMAIN race.call = 1..Len(pool.rpc_urls))

\* C19 case: an endpoint is flagged unhealthy by a finished health_check
\* run, get_client has returned it and a race over all endpoints is on
C19_Witness ==
    /\ hc.pc = "idle"
    /\ race.pc = "gather"
    /\ \E u \in Range(pool.rpc_urls) : ~pool.health_status[u] /\ pool.client = u


\* C20: a pool account buffer shorter than the layout (744 bytes) is never
\* decoded into a pool state, and the price or liquidity operation that
\* read it returns no value.
C20_ShortBufferFails ==
    (pq.pc \notin {"idle", "account"} /\ pq.data_len < SizeOf(RAYDIUM_POOL_V4_LAYOUT))
        => /\ ~pq.parsed
           /\ pq.pc = "done"
           /\ ~pq.result.some

\* C20 case: get_token_price_usd has returned on a buffer one byte short
C20_Witness ==
    /\ pq.pc = "done" /\ pq.op = "price_usd"
    /\ pq.data_len = SizeOf(RAYDIUM_POOL_V4_LAYOUT) - 1
    /\ ~pq.result.some

\* ---------------------------------------------------------------------
\* Price derivation (price_calculator.py)

\* get_token_price_in_sol or get_token_price_usd got both balances of a
\* parsed pool, both non-zero
Derived ==
    /\ pq.pc \in {"sol_price", "done"}
    /\ pq.op \in {"price_in_sol", "price_usd"}
    /\ pq.parsed
    /\ pq.base_info.some /\ pq.quote_info.some
    /\ pq.base_info.amount # 0 /\ pq.quote_info.amount # 0

ReferenceSideReserve ==
    IF pq.sol_side = "base" THEN Adjusted(pq.base_info) ELSE Adjusted(pq.quote_info)

OtherSideReserve ==
    IF pq.sol_side = "base" THEN Adjusted(pq.quote_info) ELSE Adjusted(pq.base_info)

\* C21 as stated: with SOL on one side and both reserves non-zero the derived
\* price is otherSideReserve / referenceSideReserve; with SOL on neither
\* side there is no price
C21_PriceIsOtherOverReference ==
    Derived =>
        IF pq.sol_side = "none"
        THEN ~pq.price_in_sol.some
        ELSE /\ pq.price_in_sol.some
             /\ SameValue(pq.price_in_sol, Ratio(OtherSideReserve, ReferenceSideReserve))

\* C21 amended: with SOL on one side and both reserves non-zero the derived
\* price is referenceSideReserve / otherSideReserve (SOL reserve over token
\* reserve), whichever of base or quote is SOL; with SOL on neither side
\* there is no price
C21_PriceIsReferenceOverOther ==
    Derived =>
        IF pq.sol_side = "none"
        THEN ~pq.price_in_sol.some
        ELSE /\ pq.price_in_sol.some
             /\ SameValue(pq.price_in_sol, Ratio(ReferenceSideReserve, OtherSideReserve))

\* a pool with 5 raw units of SOL (1 decimal) against 20 tokens is priced
C21_Witness ==
    /\ Derived
    /\ pq.sol_side = "quote"
    /\ pq.quote_info = [some |-> TRUE, amount |-> 5, decimals |-> 1]
    /\ pq.base_info = [some |-> TRUE, amount |-> 20, decimals |-> 0]
    /\ pq.price_in_sol = [some |-> TRUE, num |-> 5, den |-> 200]

\* ---------------------------------------------------------------------
\* The SOL quote cache and its fallback (price_calculator.py)

\* C22: a call made less than 60 seconds after the last successful fetch
\* returns the cached value without a fetch; with a cached value that is 60
\* seconds old or older (or none) a fetch is attempted and the cached value
\* is not returned by the call
C22_CacheWindow ==
    [][(sp.pc = "idle" /\ sp' # sp /\ now' = now) =>
          IF sp.sol_price_cache # 0 /\ now - sp.sol_price_timestamp < 60
          THEN sp'.pc = "idle" /\ ~sp'.fetched /\ sp'.ret = sp.sol_price_cache
          ELSE sp'.pc = "fetching" /\ sp'.fetched]_vars

\* a value cached 59 seconds ago was returned without a fetch after an
\* earlier call had fetched it
C22_Witness ==
    /\ sp.pc = "idle"
    /\ ~sp.fetched
    /\ sp.sol_price_cache = 200
    /\ sp.ret = 200
    /\ now - sp.sol_price_timestamp = 59

\* C23: a fetch that fails (non-200, no price field, timeout, exception)
\* returns 150, get_sol_price_usd never returns no value, and
\* get_token_price_usd with a price in SOL always has a result, 150 times
\* that price after a failed fetch
C23_FallbackOnFailure ==
    /\ (sp.pc = "idle" /\ sp.outcome \in FetchOutcomes \ {"ok"}) => sp.ret = 150
    /\ (sp.pc = "idle" /\ sp.caller # "-") => sp.ret # 0
    /\ (pq.op = "price_usd" /\ pq.pc = "done" /\ pq.price_in_sol.some) =>
            /\ pq.result.some
            /\ (sp.pc = "idle" /\ sp.caller = "price_usd"
                    /\ sp.outcome \in FetchOutcomes \ {"ok"}) =>
                   pq.result = [some |-> TRUE, num |-> pq.price_in_sol.num * 150,
                                den |-> pq.price_in_sol.den]

\* get_token_price_usd returned a price although the quote request timed out
C23_Witness ==
    /\ pq.op = "price_usd" /\ pq.pc = "done"
    /\ pq.price_in_sol = [some |-> TRUE, num |-> 5, den |-> 20]
    /\ sp.pc = "idle" /\ sp.caller = "price_usd" /\ sp.outcome = "timeout"
    /\ pq.result = [some |-> TRUE, num |-> 750, den |-> 20]

\* ---------------------------------------------------------------------
\* Screening (rug_checker.py)

\* C24: the verdict follows the table: 5 or 4 passed checks give LOW and
\* safe, exactly 3 give MEDIUM and unsafe, 0 to 2 give HIGH and unsafe, for
\* every combination of results of the five checks
C24_AggregationTable ==
    rug.pc = "done" =>
        /\ rug.checks_passed = Cardinality(Passed(rug.check))
        /\ rug.checks_failed = 5 - rug.checks_passed
        /\ rug.checks_passed \in {4, 5} => rug.risk_level = "LOW" /\ rug.is_safe
        /\ rug.checks_passed = 3 => rug.risk_level = "MEDIUM" /\ ~rug.is_safe
        /\ rug.checks_passed \in {0, 1, 2} => rug.risk_level = "HIGH" /\ ~rug.is_safe

\* three of five checks passed and the token was reported unsafe
C24_Witness ==
    /\ rug.pc = "done"
    /\ Passed(rug.check) = {"mint_authority", "freeze_authority", "liquidity"}
    /\ rug.risk_level = "MEDIUM"
    /\ ~rug.is_safe

\* C25 as stated: an internal error inside any check counts as that
\* check's failure, never as a pass, and the other checks still run and
\* contribute to the verdict
C25_ErrorIsFailure ==
    rug.pc = "done" =>
        /\ \A c \in CheckNames : rug.err[c] => rug.check[c] = "fail"
        /\ \A c \in CheckNames : rug.check[c] \in {"pass", "fail"}
        /\ rug.checks_passed = Cardinality(Passed(rug.check))

\* C25 amended: an internal error inside the mint-authority,
\* freeze-authority, holder-distribution or liquidity check counts as that
\* check's failure, an internal error inside the creator-history check
\* counts as a pass of that check, and in every case the other checks still
\* run and contribute to the verdict
C25_ErrorIsFailureButCreator ==
    rug.pc = "done" =>
        /\ \A c \in CheckNames \ {"creator_history"} : rug.err[c] => rug.check[c] = "fail"
        /\ rug.err["creator_history"] => rug.check["creator_history"] = "pass"
        /\ \A c \in CheckNames : rug.check[c] \in {"pass", "fail"}
        /\ rug.checks_passed = Cardinality(Passed(rug.check))

\* the mint-authority check and the creator-history check both raised; the
\* other three passed and were counted with the creator-history check
C25_Witness ==
    /\ rug.pc = "done"
    /\ rug.err["mint_authority"] /\ rug.err["creator_history"]
    /\ rug.check["mint_authority"] = "fail"
    /\ Passed(rug.check) = CheckNames \ {"mint_authority"}
    /\ rug.checks_passed = 4

\* C26: the liquidity check fails exactly when liquidity is present and
\* below the floor of 5; 10 passes; absent liquidity passes and is counted
\* as a passed check of the verdict
C26_LiquidityFloor ==
    /\ rug.pc # "idle" =>
          /\ rug.check["liquidity"] = "fail"
                <=> (rug.liquidity_sol # NoLiquidity /\ rug.liquidity_sol < 5)
          /\ rug.check["liquidity"] # "fail" => rug.check["liquidity"] = "pass"
          /\ rug.liquidity_sol = 10 => rug.check["liquidity"] = "pass"
    /\ (rug.pc = "done" /\ rug.liquidity_sol = NoLiquidity) =>
          rug.checks_passed =
              1 + Cardinality(Passed(rug.check) \ {"liquidity"})

\* liquidity exactly at the floor passed and was counted
C26_Witness ==
    /\ rug.pc = "done"
    /\ rug.liquidity_sol = 5
    /\ rug.check["liquidity"] = "pass"
    /\ rug.checks_passed = 5

\* ---------------------------------------------------------------------
\* Trade execution (jupiter_trader.py)

\* C27: execute_buy and execute_sell end every failure (no quote, no swap
\* transaction, decoding or signing error, simulation error, submission
\* error) with a null result and no exception reaches the caller; a task
\* whose execute_buy returned null opens no position and counts no trade,
\* and a position is opened only from a non-null result
C27_FailureIsNull ==
    [][/\ tr'.pc = "done" =>
            /\ ~tr'.raised
            /\ tr'.failed \in {"quote", "swap", "sign", "simulate", "sim_err", "submit"}
                  => tr'.result = NoTx
            /\ tr'.failed = "-" => tr'.result # NoTx
       /\ (tr.pc = "done" /\ tr.caller # NoCaller /\ tr.result = NoTx /\ tr' = NoTrade)
            => UNCHANGED <<positions, stats>>
       /\ \A k \in Tokens :
            Opened(k) => /\ tr.pc = "done" /\ tr.caller.token = k
                         /\ tr.result # NoTx
                         /\ positions'[k].entry_tx = tr.result]_vars

\* the submission of a task's real buy raised: null result, no position
C27_Witness ==
    /\ tr.pc = "done"
    /\ tr.caller # NoCaller
    /\ ~tr.dry_run
    /\ tr.failed = "submit"
    /\ tr.result = NoTx
    /\ NumOpen(positions) = 0

\* C28: on every return after the client was obtained the client has been
\* closed, on the dry-run path and on the real path
C28_ClientReleased ==
    (tr.pc = "done" /\ tr.client # "none") => tr.client = "closed"

\* C29: a dry-run call never submits, only simulates, and its non-null
\* result is the locally made id; a real call submits, does not simulate,
\* and its non-null result is the id the network returned; nothing is
\* simulated or submitted before it is signed
C29_DryRunNeverSubmits ==
    /\ tr.dry_run => ~tr.submitted
    /\ (tr.dry_run /\ tr.pc = "done" /\ tr.result # NoTx) =>
            tr.result = SimulatedId /\ tr.simulated /\ ~tr.sim_err
    /\ ~tr.dry_run => ~tr.simulated
    /\ (~tr.dry_run /\ tr.pc = "done" /\ tr.result # NoTx) =>
            tr.submitted /\ tr.result = tr.tx_sig /\ tr.result \in TxIds
    /\ (tr.simulated \/ tr.submitted) => tr.signed

\* a dry-run buy returned the local id after signing and simulating
C29_Witness ==
    /\ tr.pc = "done"
    /\ tr.side = "buy"
    /\ tr.dry_run
    /\ tr.signed /\ tr.simulated /\ ~tr.submitted
    /\ tr.result = SimulatedId

\* ---------------------------------------------------------------------
\* The valuation loop (monitor_positions)

\* the step starts a pass over a new list of the open positions
TickStarts == mon' # mon /\ mon'.pc = "fetch" /\ mon'.cur \notin mon.queue

\* C30: the loop values one position at a time (the one in flight is not
\* among those still waiting, and between passes nothing is in flight or
\* waiting), and a pass starts only from the top of the loop, at start-up
\* or after the sleep that follows the previous pass
C30_TicksNeverOverlap ==
    [][/\ mon.pc \in {"fetch", "exit_save"} =>
             mon.cur # NoItem /\ mon.cur \notin mon.queue
       /\ mon.pc \in {"init", "sleep", "done", "dead"} =>
             mon.cur = NoItem /\ mon.queue = {}
       /\ TickStarts =>
             /\ mon.pc \in {"init", "sleep"}
             /\ running
             /\ mon'.queue \cup {mon'.cur} = Snapshot(positions)]_vars

\* a pass over two open positions: one is being valued, the other waits
C30_Witness ==
    /\ mon.pc = "fetch"
    /\ mon.cur # NoItem
    /\ Cardinality(mon.queue) = 1
    /\ NumOpen(positions) = 2

\* C31: when the price of the position being valued is unavailable, the
\* position stays open unchanged and nothing is booked, the positions still
\* waiting in the pass are valued next, and after the last one the loop
\* sleeps towards the next pass
C31_FailureSkipsOnePosition ==
    [][\A h \in HoldTimes :
          MonPrice(NoPrice, h) =>
              /\ positions' = positions
              /\ stats' = stats
              /\ mon.queue # {} =>
                    /\ mon'.pc = "fetch"
                    /\ mon'.cur \in mon.queue
                    /\ mon'.queue = mon.queue \ {mon'.cur}
              /\ mon.queue = {} => mon'.pc = "sleep"]_vars

\* the second position of a pass is being valued and the first is still
\* open, untouched, with nothing booked
C31_Witness ==
    /\ mon.pc = "fetch"
    /\ mon.queue = {}
    /\ NumOpen(positions) = 2
    /\ \A k \in Tokens : positions[k].highest_price = positions[k].lowest_price
    /\ stats.wins + stats.losses = 0

C33_DispatchWithoutBlocking ==
    /\ [][\A sig \in Sigs :
              ReadFrame("event", sig, TRUE) =>
                  /\ pools_detected' = pools_detected + 1
                  /\ pending' = [pending EXCEPT ![sig] = @ + 1]
                  /\ processed_pools' = processed_pools
                  /\ pools_analyzed' = pools_analyzed
                  /\ lst'.pc = "reading"]_vars
    /\ []((lst.pc = "reading" /\ running /\ pools_detected < MaxFrames) =>
             \A sig \in Sigs : ENABLED ReadFrame("event", sig, TRUE))

\* two matching frames were read and neither analysis task has run yet
C33_Witness ==
    /\ lst.pc = "reading"
    /\ pools_detected = 2
    /\ pools_analyzed = 0
    /\ \E s, t \in Sigs : s # t /\ pending[s] = 1 /\ pending[t] = 1

\* C34: current_index stays within 0..N-1; a round-robin call returns the
\* endpoint at current_index, whatever its health flag, and moves
\* current_index to the next position modulo N; nothing else (a random
\* selection, a health check, a race) moves it, so N consecutive
\* round-robin calls return the N endpoints once each in list order
C34_RoundRobinCycles ==
    /\ [](pool.constructed = "ok" =>
             pool.current_index \in 0..(Len(pool.rpc_urls) - 1))
    /\ [][\A url \in Range(rpc_keys) \cup {PUBLIC_RPC} :
              GetClient(FALSE, url) =>
                  /\ url = pool.rpc_urls[pool.current_index + 1]
                  /\ pool'.client = url
                  /\ pool'.current_index = (pool.current_index + 1) % Len(pool.rpc_urls)
                  /\ pool'.rpc_urls = pool.rpc_urls]_vars
    /\ [][(pool.constructed = "ok" /\ pool'.current_index # pool.current_index) =>
              \E url \in Range(rpc_keys) \cup {PUBLIC_RPC} : GetClient(FALSE, url)]_vars

\* of two endpoints the first, flagged unhealthy, was returned by a
\* round-robin call and the position moved on to the second
C34_Witness ==
    /\ pool.constructed = "ok"
    /\ Len(pool.rpc_urls) = 2
    /\ pool.current_index = 1
    /\ pool.client = pool.rpc_urls[1]
    /\ ~pool.health_status[pool.rpc_urls[1]]

\* C35: today_trades never exceeds MAX_DAILY_TRADES, also when admissions
\* overlap, and always equals trades_simulated + trades_executed
C35_DailyCapAndSum ==
    /\ stats.today_trades <= MAX_DAILY_TRADES
    /\ stats.today_trades = stats.trades_simulated + stats.trades_executed

\* C36: every open position was opened after a safe verdict and a positive
\* price: its rug_check_passed is at least 4 and its entry_price_usd is
\* positive; a task goes on to pricing and buying only with such a verdict
\* and price, and an unsafe verdict ends the task without a buy
C36_OpenedAfterSafeAndPriced ==
    /\ [](\A k \in Tokens :
             positions[k] # NoPos =>
                 /\ positions[k].rug_check_passed >= 4
                 /\ positions[k].entry_price_usd > 0)
    /\ [](\A r \in BagToSet(tasks) :
             /\ r.pc \in {"pricing", "buying"} => r.checks_passed >= 4
             /\ r.pc = "buying" => r.price_usd > 0)
    /\ [][\A r \in Live, passed \in ChecksPassed :
              (ScreenReturn(r, passed) /\ passed < 4) =>
                  /\ tasks' = tasks (-) One(r)
                  /\ positions' = positions
                  /\ stats'.today_trades = stats.today_trades]_vars

\* a position is open on a verdict of 4 checks and a positive price, after
\* another verdict was refused
C36_Witness ==
    /\ stats.rug_checks_failed >= 1
    /\ \E k \in Tokens :
          /\ positions[k] # NoPos
          /\ positions[k].rug_check_passed = 4
          /\ positions[k].entry_price_usd \in Prices

\* C37: when every chain RPC call of a screening run raised (the account
\* reads of both authority checks, the holder query, and the signature
\* query when a creator was given), the verdict is not safe, whatever the
\* liquidity and the creator: at most liquidity and creator_history pass
C37_AllCallsFailNotSafe ==
    (/\ rug.pc = "done"
     /\ rug.err["mint_authority"]
     /\ rug.err["freeze_authority"]
     /\ rug.err["holder_distribution"]
     /\ rug.creator => rug.err["creator_history"])
    => /\ ~rug.is_safe
       /\ rug.checks_passed <= 2
       /\ Passed(rug.check) \subseteq {"liquidity", "creator_history"}

\* a run with a creator and enough liquidity in which all four calls raised
C37_Witness ==
    /\ rug.pc = "done"
    /\ rug.creator
    /\ rug.liquidity_sol >= MIN_LIQUIDITY_SOL
    /\ \A c \in CheckNames \ {"liquidity"} : rug.err[c]
    /\ rug.checks_passed = 2
    /\ ~rug.is_safe

\* C38: once the listener has started, reconnect_delay is within
\* [RECONNECT_DELAY, max_reconnect_delay], and a connection attempt begins
\* only at the start of the listener or out of a sleep of the current
\* delay: never straight after a connection ended, by an error or by the
\* stream ending without one
C38_SleepBeforeReconnect ==
    /\ [](lst.pc # "start" =>
             lst.reconnect_delay \in RECONNECT_DELAY..max_reconnect_delay)
    /\ [][(lst'.pc = "connecting" /\ lst.pc # "connecting") =>
              lst.pc \in Sleeping \cup {"start"}]_vars

\* the first half of C38 alone
C38_DelayInRange ==
    lst.pc # "start" => lst.reconnect_delay \in RECONNECT_DELAY..max_reconnect_delay

\* the valuation loop goes into exit_position in this step
MonExits == mon.pc = "fetch" /\ mon'.pc = "exit_save"

\* C39: the valuation loop closes a position only in a tick in which its
\* price was fetched and one of the four exit rules matched for it: the
\* loop enters exit_position only from a returned price whose pnl and
\* hold time match a rule, a pnl strictly between SMALL_LOSS_PERCENT and
\* TAKE_PROFIT_1 matches none whatever the hold time, and the position
\* stored under the key that exit_position will delete matches a rule too
C39_ExitOnlyOnRule ==
    /\ [][MonExits =>
              \E p \in Prices, h \in HoldTimes :
                  /\ MonPrice(p, h)
                  /\ ExitReason(current_pnl(mon.cur.entry_price_usd, p), h)
                        \in {"STOP_LOSS", "TAKE_PROFIT_2", "TAKE_PROFIT_1", "TIMEOUT_LOSS"}
                  /\ positions[mon.cur.token] # NoPos =>
                        ExitReason(current_pnl(positions[mon.cur.token].entry_price_usd, p), h)
                            # "None"]_vars
    /\ [][\A p \in Prices, h \in HoldTimes :
              LET pnl == current_pnl(mon.cur.entry_price_usd, p)
              IN (/\ MonPrice(p, h)
                  /\ pnl > SMALL_LOSS_PERCENT * PnlScale
                  /\ pnl < TAKE_PROFIT_1 * PnlScale)
                 => ~MonExits /\ \A k \in Tokens : ~Removed(k)]_vars
    /\ [][\A k \in Tokens :
              (Removed(k) /\ mon' # mon) =>
                  /\ mon.pc = "exit_save"
                  /\ mon.cur.token = k]_vars

\* C39 read of the Position object of the snapshot alone, whatever the key
\* holds by then
C39_ExitOnlyOnRuleOfSnapshot ==
    /\ [][MonExits =>
              \E p \in Prices, h \in HoldTimes :
                  /\ MonPrice(p, h)
                  /\ ExitReason(current_pnl(mon.cur.entry_price_usd, p), h)
                        \in {"STOP_LOSS", "TAKE_PROFIT_2", "TAKE_PROFIT_1", "TIMEOUT_LOSS"}]_vars
    /\ [][\A p \in Prices, h \in HoldTimes :
              LET pnl == current_pnl(mon.cur.entry_price_usd, p)
              IN (/\ MonPrice(p, h)
                  /\ pnl > SMALL_LOSS_PERCENT * PnlScale
                  /\ pnl < TAKE_PROFIT_1 * PnlScale)
                 => ~MonExits /\ \A k \in Tokens : ~Removed(k)]_vars
    /\ [][\A k \in Tokens :
              (Removed(k) /\ mon' # mon) =>
                  /\ mon.pc = "exit_save"
                  /\ mon.cur.token = k]_vars

\* C40: pools_analyzed equals the number of distinct signatures in
\* processed_pools and never exceeds pools_detected, and processed_pools
\* only grows: a signature once recorded stays recorded
C40_AnalyzedCountsProcessed ==
    /\ [](pools_analyzed = Cardinality(processed_pools))
    /\ [](pools_analyzed <= pools_detected)
    /\ [][processed_pools \subseteq processed_pools']_vars

\* two signatures analyzed out of three detected frames, the repeated one
\* run and skipped
C40_Witness ==
    /\ pools_detected = 3
    /\ pools_analyzed = 2
    /\ Cardinality(processed_pools) = 2
    /\ \A sig \in Sigs : pending[sig] = 0

====
